---- MODULE Spec2Model ----
(***************************************************************************)
(* A model of the live, stateful parts of the secousse client:             *)
(*   - TauriHlsLoader (src/src/TauriHlsLoader.ts): the hls.js loader that   *)
(*     routes playlist and segment requests through the Tauri bridge;      *)
(*   - useChat (src/src/hooks/useChat.ts, identity-based dedup, and         *)
(*     src/unnamed/part_003, content/time-based dedup): the chat hook;      *)
(*   - useEmotes (src/unnamed/part_001): the emote and badge tables, with    *)
(*     the effect of App (src/src/App.tsx) that starts the channel loads;   *)
(*   - ChatMessageView (src/src/hooks/useSearch.ts): badge resolution.      *)
(* Each component has its own specification over its own variables; the    *)
(* variables of the other components stay unchanged in it.                 *)
(***************************************************************************)
EXTENDS Integers, Sequences, FiniteSets, TLC

VARIABLES
    \* ---- TauriHlsLoader ----
    destroyed,      \* this.destroyed
    callbacks,      \* this.callbacks: NoCallbacks (null) or the object passed to load()
    context,        \* this.context: NoContext (unset) or the context passed to load()
    stats,          \* this.stats
    calls,          \* bridge calls (invoke) that have not settled yet
    loadCount,      \* number of load() calls made so far
    perfNow,        \* performance.now()
    trace,          \* history: API calls made on the loader and callbacks it invoked
    settled,        \* history: the bridge calls that have settled, and how
    \* ---- useChat ----
    policy,         \* which source file is running: "id" (useChat.ts) or "content" (part_003)
    channel,        \* the channel prop (the user's current selection)
    currentChannelRef, \* currentChannelRef.current
    messages,       \* the messages state
    seenIds,        \* seenIdsRef.current, in insertion order
    timers,         \* pending setTimeout continuations of the chat-disconnected listener
    connects,       \* history: connect_to_chat commands issued
    accepted,       \* history: the events appended to messages since the last channel change
    lastEvent,      \* history: the last chat-message event handled, and what became of it
    selCount,       \* history: number of times the channel effect has run
    notified,       \* history: the chat-disconnected notifications handled so far
    now,            \* Date.now()
    isLoggedIn,     \* the isLoggedIn prop of useChat
    pendingSends,   \* send_chat_message invocations that have not settled yet
    sendLog,        \* history: the sendMessage calls made
    invokeLog,      \* history: the send_chat_message commands issued
    errorLog,       \* history: the errors sendMessage has logged
    received,       \* history: the chat-message events of the session, in receive order
    \* ---- ChatMessageView ----
    viewProps,      \* the props of a ChatMessageView: msg.badges, globalBadges, channelBadges
    badgeUrls,      \* the badgeUrls useMemo value
    \* ---- useEmotes ----
    globalEmotes,         \* third-party global emotes (7TV/BTTV/FFZ)
    twitchGlobalEmotes,   \* platform global emotes
    channelEmotes,        \* third-party channel emotes
    twitchChannelEmotes,  \* platform channel emotes
    globalBadges,
    channelBadges,
    allEmotes,            \* the useMemo value
    emoteLoads,           \* loads (invoke promises) that have not settled yet
    channelLoadCount,     \* history: number of loadChannelEmotes calls so far
    lastSettled,          \* history: the load that settled last, and its results
    startup,              \* the results the three startup loads will settle with
    selectedId,           \* App: the channel the user has selected (its id), "" for none
    appliedFor,           \* history: the channel whose load last set the channel tables
    \* ---- useChat: reconnect attempts ----
    attempts,       \* connect_to_chat commands of the listener that have not settled yet
    reconnectLog,   \* history: the log lines written after a reconnect attempt settled
    \* ---- VideoPlayer ----
    playerChannel,  \* the channel prop, NoChannel while the player is not rendered
    playerStream,   \* the userInfo?.stream?.id prop, NoStream while there is no stream
    playerInstance, \* which mount of VideoPlayer is (or was last) rendered
    hlsRef,         \* hlsRef.current: NoHls (null) or the id of an instance
    hlsAlive,       \* the Hls instances created and not destroyed
    streamRequests, \* get_stream_url commands that have not settled yet
    hlsCount,       \* history: number of Hls instances created
    playerRuns,     \* history: number of runs of the loadStream effect
    \* ---- App: the channel state around the "load channel data" effect ----
    isLoadingStream,   \* the isLoadingStream state, handed to VideoPlayer with its setter
    isMounted,         \* isMounted.current
    loadingChannelRef, \* loadingChannelRef.current, NoChannel for null
    awaiting,          \* the runs of loadChannelData that are at their await Promise.all
    lookupCount,       \* history: number of get_user_info commands of the effect
    \* ---- useSearch ----
    query,          \* the query state
    results,        \* the results state
    showResults,    \* the showResults state
    timeoutRef,     \* timeoutRef.current: NoTimer (null) or the id of the last timer set
    searchTimers,   \* pending setTimeout callbacks of the debounce effect
    searchRequests, \* search_channels commands that have not settled yet
    searchNow,      \* the time
    searchCount,    \* history: number of timers set
    searchLog,      \* history: the search_channels commands issued
    resultsFor,     \* history: the query whose response last filled results
    picked,         \* history: the login last handed to onSelectChannel
    \* ---- useTopStreams ----
    topStreams,     \* the topStreams state
    isLoading,      \* the isLoading state
    isLoadingRef,   \* isLoadingRef.current
    topRequests,    \* get_top_streams commands that have not settled yet
    topCalls        \* history: number of loadTopStreams calls

loaderVars == <<destroyed, callbacks, context, stats, calls, loadCount, perfNow, trace,
                settled>>
chatVars == <<policy, channel, currentChannelRef, messages, seenIds, timers, connects,
              accepted, lastEvent, selCount, notified, now>>
emoteVars == <<globalEmotes, twitchGlobalEmotes, channelEmotes, twitchChannelEmotes,
               globalBadges, channelBadges, allEmotes, emoteLoads, channelLoadCount>>
sendVars == <<isLoggedIn, pendingSends, sendLog, invokeLog, errorLog>>
viewVars == <<viewProps, badgeUrls>>
emoteHist == <<startup, selectedId, appliedFor>>
attemptVars == <<attempts, reconnectLog>>
playerVars == <<playerChannel, playerStream, playerInstance, hlsRef, hlsAlive,
                streamRequests, hlsCount, playerRuns>>
hostVars == <<isMounted, loadingChannelRef, awaiting, lookupCount>>
searchVars == <<query, results, showResults, timeoutRef, searchTimers, searchRequests,
                searchNow, searchCount, searchLog, resultsFor, picked>>
topVars == <<topStreams, isLoading, isLoadingRef, topRequests, topCalls>>
uiVars == <<attemptVars, playerVars, searchVars, topVars, isLoadingStream, hostVars>>
vars == <<loaderVars, chatVars, emoteVars, sendVars, received, viewVars, lastSettled,
          emoteHist, uiVars>>

\* ------------------------------------------------------------------------
\* Generic helpers
\* ------------------------------------------------------------------------

Last(s) == s[Len(s)]

\* Array.prototype.slice(-n): the last n elements (all of them when there are fewer).
SliceLast(s, n) ==
    IF Len(s) <= n THEN s ELSE SubSeq(s, Len(s) - n + 1, Len(s))

Range(s) == {s[i] : i \in DOMAIN s}

\* ------------------------------------------------------------------------
\* TauriHlsLoader
\* ------------------------------------------------------------------------

MaxLoads == 2      \* load() calls per loader instance
MaxAborts == 1     \* abort() calls per loader instance
MaxDestroys == 2   \* destroy() calls per loader instance
MaxPerf == 2       \* performance.now() stops advancing here

NoCallbacks == [id |-> 0, hasOnAbort |-> FALSE]
NoContext == [id |-> 0, url |-> <<>>]

\* URLs as sequences of parts, so that "contains .m3u8" and "ends with .m3u8" differ.
Urls ==
    { <<"live", ".m3u8">>, <<"seg1", ".ts">>, <<"seg2", ".m3u8", "?sig">> }

\* One playlist url and one segment url, for the specifications in which the place of
\* ".m3u8" in the url plays no part.
PlainUrls == { <<"live", ".m3u8">>, <<"seg1", ".ts">> }

\* Payloads of the bridge: text as a sequence of character codes, bytes as number[].
Texts == { <<35, 69, 88>> }
ByteLists == { <<1, 255>> }
Errors == { "http 403" }

\* LoaderStats as built by the constructor.
InitStats ==
    [ aborted |-> FALSE, loaded |-> 0, retry |-> 0, total |-> 0,
      chunkCount |-> 0, bwEstimate |-> 0,
      loading |-> [start |-> 0, first |-> 0, end |-> 0],
      parsing |-> [start |-> 0, end |-> 0],
      buffering |-> [start |-> 0, first |-> 0, end |-> 0] ]

\* A variant that tests the end of the url only.
IsPlaylistBySuffix(url) == url # <<>> /\ Last(url) = ".m3u8"

\* context.url.includes('.m3u8')
IsPlaylist(url) == \E i \in DOMAIN url : url[i] = ".m3u8"

\* new Uint8Array(data): every number is stored modulo 256.
ToUint8Array(data) == [i \in DOMAIN data |-> data[i] % 256]

\* String(e)
StringOf(e) == e

\* The error object passed to onError: { code: 0, text: String(e) }
LoaderError(e) == [code |-> 0, text |-> StringOf(e)]

Event(op, load, call, url, data) ==
    [op |-> op, load |-> load, call |-> call, url |-> url, data |-> data]

LoaderInit ==
    /\ destroyed = FALSE
    /\ callbacks = NoCallbacks
    /\ context = NoContext
    /\ stats = InitStats
    /\ calls = {}
    /\ loadCount = 0
    /\ perfNow = 1
    /\ trace = <<>>
    /\ settled = <<>>

\* The guard of both continuations: if (this.destroyed || this.stats.aborted) return;
DiscardedIgnoringAbort == destroyed

Discarded == destroyed \/ stats.aborted

\* load(context, config, callbacks), including the synchronous start of
\* loadPlaylist / loadSegment up to their await.
Load(url, hasOnAbort) ==
    /\ loadCount < MaxLoads
    /\ loadCount' = loadCount + 1
    /\ context' = [id |-> loadCount + 1, url |-> url]
    /\ callbacks' = [id |-> loadCount + 1, hasOnAbort |-> hasOnAbort]
    /\ stats' = [stats EXCEPT !.loading.start = perfNow]
    /\ calls' = calls \cup
          { [load |-> loadCount + 1,
             cmd |-> IF IsPlaylist(url) THEN "fetch_m3u8" ELSE "fetch_bytes",
             url |-> url] }
    /\ trace' = Append(trace, Event("load", loadCount + 1, 0, url, <<>>))
    /\ UNCHANGED <<destroyed, perfNow>>

\* abort()
Abort ==
    /\ Cardinality({i \in DOMAIN trace : trace[i].op = "abort"}) < MaxAborts
    /\ stats' = [stats EXCEPT !.aborted = TRUE]
    /\ trace' =
          IF callbacks # NoCallbacks /\ callbacks.hasOnAbort
          THEN trace \o << Event("abort", 0, 0, <<>>, <<>>),
                           Event("onAbort", callbacks.id, 0, context.url, <<>>) >>
          ELSE Append(trace, Event("abort", 0, 0, <<>>, <<>>))
    /\ UNCHANGED <<destroyed, callbacks, context, calls, loadCount, perfNow>>

\* destroy()
Destroy ==
    /\ Cardinality({i \in DOMAIN trace : trace[i].op = "destroy"}) < MaxDestroys
    /\ destroyed' = TRUE
    /\ callbacks' = NoCallbacks
    /\ trace' = Append(trace, Event("destroy", 0, 0, <<>>, <<>>))
    /\ UNCHANGED <<context, stats, calls, loadCount, perfNow>>

\* A variant that writes loading.first on every success.
StampedOverwritingFirst(len) ==
    [stats EXCEPT
        !.loading.first = perfNow,
        !.loading.end = perfNow,
        !.loaded = len,
        !.total = len,
        !.parsing = [start |-> perfNow, end |-> perfNow],
        !.buffering = [start |-> perfNow, first |-> perfNow, end |-> perfNow]]

\* A variant that leaves the parsing and buffering records as they were.
StampedWithoutPassThrough(len) ==
    [stats EXCEPT
        !.loading.first = IF stats.loading.first = 0 THEN perfNow ELSE @,
        !.loading.end = perfNow,
        !.loaded = len,
        !.total = len]

\* The stats written on the success path of loadPlaylist / loadSegment.
Stamped(len) ==
    [stats EXCEPT
        !.loading.first = IF stats.loading.first = 0 THEN perfNow ELSE @,
        !.loading.end = perfNow,
        !.loaded = len,
        !.total = len,
        !.parsing = [start |-> perfNow, end |-> perfNow],
        !.buffering = [start |-> perfNow, first |-> perfNow, end |-> perfNow]]

\* A variant that builds the response without the url.
SuccessCallbacksWithoutUrl(call, data, throws) ==
    IF callbacks = NoCallbacks THEN <<>>
    ELSE << Event("onSuccess", callbacks.id, call.load, <<>>, data) >>

\* The invocations made by the success path: onSuccess, and onError from the catch
\* block when onSuccess throws.
SuccessCallbacks(call, data, throws) ==
    IF callbacks = NoCallbacks THEN <<>>
    ELSE << Event("onSuccess", callbacks.id, call.load, context.url, data) >> \o
         ( IF throws
           THEN << Event("onError", callbacks.id, call.load, context.url,
                         LoaderError("callback threw")) >>
           ELSE <<>> )

\* The bridge call resolves: the continuation of loadPlaylist / loadSegment after await.
Resolve(call, raw, throws) ==
    /\ call \in calls
    /\ calls' = calls \ {call}
    /\ LET data == IF call.cmd = "fetch_m3u8" THEN raw ELSE ToUint8Array(raw) IN
       IF Discarded
       THEN UNCHANGED <<stats, trace>>
       ELSE /\ stats' = Stamped(Len(data))
            /\ trace' = trace \o SuccessCallbacks(call, data, throws)
    /\ UNCHANGED <<destroyed, callbacks, context, loadCount, perfNow>>

\* The bridge call rejects: the catch block of loadPlaylist / loadSegment.
Reject(call, err) ==
    /\ call \in calls
    /\ calls' = calls \ {call}
    /\ trace' =
          IF Discarded \/ callbacks = NoCallbacks
          THEN trace
          ELSE Append(trace,
                      Event("onError", callbacks.id, call.load, context.url,
                            LoaderError(err)))
    /\ UNCHANGED <<destroyed, callbacks, context, stats, loadCount, perfNow>>

\* Time passes.
PerfTick ==
    /\ perfNow < MaxPerf
    /\ perfNow' = perfNow + 1
    /\ UNCHANGED <<destroyed, callbacks, context, stats, calls, loadCount, trace>>

\* ------------------------------------------------------------------------
\* useChat
\* ------------------------------------------------------------------------

HistoryCap == 200       \* .slice(-200)
SeenCap == 500          \* seenIdsRef.current.size > 500
SuppressWindow == 100   \* Date.now() - lastMsg.timestamp < 100
ReconnectDelay == 2000  \* setTimeout(resolve, 2000)

MaxEvents == 2       \* chat-message events appended per session
MaxSelects == 2      \* runs of the channel effect, the mount included
MaxDisconnects == 1  \* chat-disconnected notifications handled
MaxRetries == 2      \* chat-disconnected notifications handled in the reconnect loop
MaxTime == 4000      \* Date.now() stops advancing here (coarse clock)
MaxFineTime == 160   \* Date.now() stops advancing here (fine clock)
MaxFineEvents == 3   \* chat-message events appended per session (fine clock)
MaxLong == 203       \* chat-message events handled in the capacity specification
MaxReceived == 3     \* chat-message events received per session (order specification)
MaxSeen == 502       \* chat-message events accepted per session (seen-id specification)

Null == "<null>"
Channels == {"alpha", "beta"}
Selections == Channels \cup {Null}
NoId == 0   \* a missing (or empty) id: falsy in `if (newMsg.id)`

\* The names a user may request: a channel name as the server spells it, or another
\* spelling of it. Confirmed(c) is the name the join acknowledgement carries for a
\* requested name c (the server's normalised spelling).
RequestedNames == Channels \cup {"Alpha"}
Requests == RequestedNames \cup {Null}
Confirmed(c) == IF c = "Alpha" THEN "alpha" ELSE c

\* Clock steps: coarse for the reconnect delay, fine for the suppression window.
TickSteps == {2000}
HalfSteps == {1000}
FineSteps == {40, 60}

\* chat-message payloads. Under the identity policy only the id decides, under the
\* content policy only user and text do, so each policy gets the inputs that matter.
EventsOf(p) ==
    IF p = "id"
    THEN [channel : Channels, user : {"u1"}, message : {"hi"}, id : 0..2]
    ELSE { [channel |-> c, user |-> t[1], message |-> t[2], id |-> NoId] :
              c \in Channels, t \in {<<"u1", "hi">>, <<"u2", "hi">>, <<"u1", "yo">>} }

\* { ...newMsg, timestamp: Date.now() }
Stored(msg) ==
    [channel |-> msg.channel, user |-> msg.user, message |-> msg.message,
     id |-> msg.id, timestamp |-> now]

\* A connect_to_chat command, with the selection at the moment it is issued.
Connect(ch, cause, n, notifiedAt, sel) ==
    [channel |-> ch, cause |-> cause, n |-> n, selected |-> sel,
     notifiedAt |-> notifiedAt, at |-> now]

Handled(msg, outcome) == [msg |-> msg, outcome |-> outcome, at |-> now]
NoEvent ==
    [msg |-> [channel |-> Null, user |-> "", message |-> "", id |-> NoId],
     outcome |-> "none", at |-> 0]

\* The state after the first render's effects, for an initial selection c.
ChatInitFor(p, c) ==
    /\ policy = p
    /\ channel = c
    /\ currentChannelRef = c
    /\ messages = <<>>
    /\ seenIds = <<>>
    /\ timers = {}
    /\ connects =
          IF c = Null THEN <<>>
          ELSE << [channel |-> c, cause |-> "select", n |-> 0, selected |-> c,
                   notifiedAt |-> 0, at |-> 0] >>
    /\ accepted = <<>>
    /\ lastEvent = NoEvent
    /\ selCount = 1
    /\ notified = <<>>
    /\ now = 0

ChatInit == \E p \in {"id", "content"} : \E c \in Selections : ChatInitFor(p, c)

\* The channel effect (useEffect(..., [channel])): it runs when the prop changes.
SelectChannel(c) ==
    /\ c # channel
    /\ selCount < MaxSelects
    /\ channel' = c
    /\ currentChannelRef' = c
    /\ messages' = <<>>
    /\ seenIds' = <<>>
    /\ connects' = IF c = Null THEN connects
                   ELSE Append(connects, Connect(c, "select", 0, now, c))
    /\ accepted' = <<>>
    /\ lastEvent' = NoEvent
    /\ selCount' = selCount + 1
    /\ UNCHANGED <<policy, timers, notified, now>>

\* if (newMsg.channel !== currentChannelRef.current) return;
WrongChannelUnfiltered(msg) == FALSE

WrongChannel(msg) == msg.channel # currentChannelRef

\* A variant that puts the new event in front.
AppendedInFront(prev, msg) == SliceLast(<<Stored(msg)>> \o prev, HistoryCap)

\* A variant that trims the newest events instead of the oldest.
AppendedKeepFirst(prev, msg) ==
    LET all == Append(prev, Stored(msg)) IN
    IF Len(all) <= HistoryCap THEN all ELSE SubSeq(all, 1, HistoryCap)

\* [...prev, { ...newMsg, timestamp: Date.now() }].slice(-200)
Appended(prev, msg) == SliceLast(Append(prev, Stored(msg)), HistoryCap)

\* A variant that remembers only the id seen last.
SeenJustBefore(msg) == msg.id # NoId /\ seenIds # <<>> /\ msg.id = Last(seenIds)

\* useChat.ts: if (newMsg.id && seenIdsRef.current.has(newMsg.id)) return;
SeenBefore(msg) == msg.id # NoId /\ msg.id \in Range(seenIds)

\* A variant that evicts the id just added.
RememberedEvictingNewest(msg) ==
    IF msg.id = NoId THEN seenIds
    ELSE LET added == Append(seenIds, msg.id) IN
         IF Len(added) > SeenCap THEN SubSeq(added, 1, SeenCap) ELSE added

\* A variant that adds the id also when the event carries none.
RememberedWithoutIdCheck(msg) ==
    LET added == Append(seenIds, msg.id) IN
    IF Len(added) > SeenCap THEN Tail(added) ELSE added

\* useChat.ts: add the id, then evict the first-inserted one past 500.
Remembered(msg) ==
    IF msg.id = NoId THEN seenIds
    ELSE LET added == Append(seenIds, msg.id) IN
         IF Len(added) > SeenCap THEN Tail(added) ELSE added

\* A variant that compares the event with every stored message.
DuplicateOfAnyStored(prev, msg) ==
    \E i \in DOMAIN prev :
        /\ prev[i].user = msg.user
        /\ prev[i].message = msg.message
        /\ now - prev[i].timestamp < SuppressWindow

\* part_003: same user, same message, within 100 ms of the last stored message.
DuplicateOfLast(prev, msg) ==
    /\ prev # <<>>
    /\ Last(prev).user = msg.user
    /\ Last(prev).message = msg.message
    /\ now - Last(prev).timestamp < SuppressWindow

\* The chat-message listener of useChat.ts (identity-based dedup).
ChatMessageById(msg) ==
    /\ policy = "id"
    /\ IF WrongChannel(msg) \/ SeenBefore(msg)
       THEN /\ lastEvent' = Handled(msg, IF WrongChannel(msg) THEN "wrong channel"
                                                                ELSE "duplicate")
            /\ UNCHANGED <<messages, seenIds, accepted>>
       ELSE /\ seenIds' = Remembered(msg)
            /\ messages' = Appended(messages, msg)
            /\ accepted' = Append(accepted, Stored(msg))
            /\ lastEvent' = Handled(msg, "appended")
    /\ UNCHANGED <<policy, channel, currentChannelRef, timers, connects, selCount,
                   notified, now>>

\* The chat-message listener of part_003 (content/time-based dedup).
ChatMessageByContent(msg) ==
    /\ policy = "content"
    /\ IF WrongChannel(msg) \/ DuplicateOfLast(messages, msg)
       THEN /\ lastEvent' = Handled(msg, IF WrongChannel(msg) THEN "wrong channel"
                                                                ELSE "duplicate")
            /\ UNCHANGED <<messages, accepted>>
       ELSE /\ messages' = Appended(messages, msg)
            /\ accepted' = Append(accepted, Stored(msg))
            /\ lastEvent' = Handled(msg, "appended")
    /\ UNCHANGED <<policy, channel, currentChannelRef, seenIds, timers, connects,
                   selCount, notified, now>>

ChatMessage(msg) == ChatMessageById(msg) \/ ChatMessageByContent(msg)

\* A variant that reconnects on the first notification only.
ShouldReconnectOnce(d) == d = channel /\ notified = <<>>

\* A variant that reconnects whatever channel the notification names.
ShouldReconnectAlways(d) == TRUE

\* The first check of the chat-disconnected listener: if (disconnectedChannel === channel).
ShouldReconnect(d) == d = channel

\* The chat-disconnected listener up to its await: the listener was registered by the
\* render in which the prop was `channel`, and keeps that value in its closure.
ChatDisconnected(d) ==
    /\ now + ReconnectDelay <= MaxTime
    /\ notified' = Append(notified, [payload |-> d, selected |-> channel])
    /\ timers' =
          IF ShouldReconnect(d)
          THEN timers \cup { [n |-> Len(notified) + 1, payload |-> d, closure |-> channel,
                              notifiedAt |-> now, due |-> now + ReconnectDelay] }
          ELSE timers
    /\ UNCHANGED <<policy, channel, currentChannelRef, messages, seenIds, connects,
                   accepted, lastEvent, selCount, now>>

\* What `channel` denotes in the second check, if (disconnectedChannel === channel):
\* the constant of the listener's closure, not the current prop.
RecheckedChannel(t) == t.closure

\* A timer that runs as soon as it is set.
TimerDueAtOnce(t) == TRUE

\* When the timer of a pending reconnect may run.
TimerDue(t) == now >= t.due

\* The continuation of the chat-disconnected listener after the 2000 ms timeout.
ReconnectAfterDelay(t) ==
    /\ t \in timers
    /\ TimerDue(t)
    /\ timers' = timers \ {t}
    /\ connects' =
          IF t.payload = RecheckedChannel(t)
          THEN Append(connects, Connect(RecheckedChannel(t), "reconnect", t.n, t.notifiedAt,
                                       channel))
          ELSE connects
    /\ UNCHANGED <<policy, channel, currentChannelRef, messages, seenIds, accepted,
                   lastEvent, selCount, notified, now>>

\* Date.now() advances.
Tick(d) ==
    /\ now' = now + d
    /\ UNCHANGED <<policy, channel, currentChannelRef, messages, seenIds, timers,
                   connects, accepted, lastEvent, selCount, notified>>

\* ------------------------------------------------------------------------
\* useChat.sendMessage
\* ------------------------------------------------------------------------

MaxSends == 2   \* sendMessage calls

\* Message texts as sequences of characters.
Whitespace == {" ", "\n"}
SendTexts ==
    { <<>>, <<" ", "\n">>, <<" ", "a", " ", "b", "\n">> }
SendErrors == {"not connected"}

\* String.prototype.trim
RECURSIVE TrimStart(_)
TrimStart(text) ==
    IF text # <<>> /\ Head(text) \in Whitespace THEN TrimStart(Tail(text)) ELSE text

RECURSIVE TrimEnd(_)
TrimEnd(text) ==
    IF text # <<>> /\ text[Len(text)] \in Whitespace
    THEN TrimEnd(SubSeq(text, 1, Len(text) - 1))
    ELSE text

Trim(text) == TrimEnd(TrimStart(text))

SendInit ==
    /\ received = <<>>
    /\ isLoggedIn = FALSE
    /\ pendingSends = {}
    /\ sendLog = <<>>
    /\ invokeLog = <<>>
    /\ errorLog = <<>>

\* The isLoggedIn prop changes (login or logout in useAuth).
SetLoggedIn(b) ==
    /\ b # isLoggedIn
    /\ isLoggedIn' = b
    /\ UNCHANGED <<pendingSends, sendLog, invokeLog, errorLog>>
    /\ UNCHANGED chatVars

\* The guard of sendMessage: if (!message.trim() || !isLoggedIn) return;
ShouldSendWhenLoggedIn(text) == isLoggedIn

ShouldSend(text) == Trim(text) # <<>> /\ isLoggedIn

\* sendMessage(message) up to its await.
SendMessage(text) ==
    /\ Len(sendLog) < MaxSends
    /\ sendLog' = Append(sendLog, [text |-> text, loggedIn |-> isLoggedIn,
                                   selected |-> channel])
    /\ IF ShouldSend(text)
       THEN /\ invokeLog' = Append(invokeLog, [n |-> Len(sendLog) + 1,
                                               message |-> Trim(text)])
            /\ pendingSends' = pendingSends \cup {Len(sendLog) + 1}
       ELSE UNCHANGED <<invokeLog, pendingSends>>
    /\ UNCHANGED <<isLoggedIn, errorLog>>
    /\ UNCHANGED chatVars

\* The send_chat_message command resolves: sendMessage returns.
SendResolved(n) ==
    /\ n \in pendingSends
    /\ pendingSends' = pendingSends \ {n}
    /\ UNCHANGED <<isLoggedIn, sendLog, invokeLog, errorLog>>
    /\ UNCHANGED chatVars

\* The send_chat_message command rejects: the catch block logs the error.
SendRejected(n, err) ==
    /\ n \in pendingSends
    /\ pendingSends' = pendingSends \ {n}
    /\ errorLog' = Append(errorLog, [n |-> n, err |-> err])
    /\ UNCHANGED <<isLoggedIn, sendLog, invokeLog>>
    /\ UNCHANGED chatVars

\* ------------------------------------------------------------------------
\* ChatMessageView.badgeUrls
\* ------------------------------------------------------------------------

\* A TwitchBadge, and a badge list prop that may be null (channelBadges is set to
\* badges.user.broadcastBadges, which the response may leave null).
Badge(setID, version, imageURL) ==
    [setID |-> setID, version |-> version, imageURL |-> imageURL]
BadgeList(items) == [isNull |-> FALSE, items |-> items]
NullList == [isNull |-> TRUE, items |-> <<>>]

GlobalBadgeLists ==
    { NullList, BadgeList(<<>>),
      BadgeList(<< Badge("sub", "1", "g-sub1") >>),
      BadgeList(<< Badge("mod", "1", "g-mod1"), Badge("sub", "1", "g-sub1") >>) }

ChannelBadgeLists ==
    { NullList, BadgeList(<<>>),
      BadgeList(<< Badge("sub", "1", "c-sub1") >>),
      BadgeList(<< Badge("sub", "2", "c-sub2"), Badge("sub", "1", "c-sub1") >>) }

\* msg.badges: a list of [name, version] pairs, or missing.
BadgeRefs ==
    { NullList, BadgeList(<<>>),
      BadgeList(<< <<"sub", "2">> >>),
      BadgeList(<< <<"vip", "1">> >>),
      BadgeList(<< <<"mod", "1">>, <<"sub", "1">> >>),
      BadgeList(<< <<"sub", "1">>, <<"mod", "1">> >>),
      BadgeList(<< <<"vip", "1">>, <<"sub", "1">>, <<"mod", "1">> >>) }

ViewPropsSet ==
    [badges : BadgeRefs, globalBadges : GlobalBadgeLists, channelBadges : ChannelBadgeLists]

\* list?.find(b => b.setID === name && b.version === version): the first match, or
\* undefined (also when the list is null).
RECURSIVE FindIn(_, _, _)
FindIn(items, name, version) ==
    IF items = <<>> THEN [found |-> FALSE, imageURL |-> Null]
    ELSE IF Head(items).setID = name /\ Head(items).version = version
         THEN [found |-> TRUE, imageURL |-> Head(items).imageURL]
         ELSE FindIn(Tail(items), name, version)

FindBadge(list, name, version) ==
    IF list.isNull THEN [found |-> FALSE, imageURL |-> Null]
    ELSE FindIn(list.items, name, version)

\* A variant that looks in the global set first.
BadgeUrlGlobalFirst(ref, globalList, channelList) ==
    LET g == FindBadge(globalList, ref[1], ref[2])
        c == FindBadge(channelList, ref[1], ref[2])
    IN IF g.found THEN g.imageURL ELSE IF c.found THEN c.imageURL ELSE Null

\* The callback of msg.badges.map: the channel badge's image, else the global
\* badge's, else null.
BadgeUrl(ref, globalList, channelList) ==
    LET c == FindBadge(channelList, ref[1], ref[2])
        g == FindBadge(globalList, ref[1], ref[2])
    IN IF c.found THEN c.imageURL ELSE IF g.found THEN g.imageURL ELSE Null

\* .filter(Boolean): null and the empty string are dropped.
RECURSIVE FilterBoolean(_)
FilterBoolean(urls) ==
    IF urls = <<>> THEN <<>>
    ELSE IF Head(urls) \in {Null, ""}
         THEN FilterBoolean(Tail(urls))
         ELSE <<Head(urls)>> \o FilterBoolean(Tail(urls))

\* The badgeUrls memo.
BadgeUrls(props) ==
    IF props.badges.isNull THEN <<>>
    ELSE FilterBoolean(
            [i \in DOMAIN props.badges.items |->
                BadgeUrl(props.badges.items[i], props.globalBadges, props.channelBadges)])

ViewInit ==
    /\ viewProps = [badges |-> NullList, globalBadges |-> BadgeList(<<>>),
                    channelBadges |-> BadgeList(<<>>)]
    /\ badgeUrls = <<>>

\* A render with new props: the memo is recomputed.
Render(props) ==
    /\ viewProps' = props
    /\ badgeUrls' = BadgeUrls(props)

\* ------------------------------------------------------------------------
\* useEmotes
\* ------------------------------------------------------------------------

MaxChannelLoads == 2   \* loadChannelEmotes calls

NoChannel == ""
ChannelIds == {"c1", "c2"}

\* Results of the bridge commands: ok is FALSE when the invoke promise rejects.
\* Emote[] of the third-party endpoints.
Emote(name, url) == [name |-> name, url |-> url]
EmoteLists ==
    { <<>>,
      << Emote("Kappa", "e1") >>,
      << Emote("LUL", "e2") >>,
      << Emote("Kappa", "e1"), Emote("LUL", "e2") >>,
      << Emote("Kappa", "e1"), Emote("Kappa", "e2") >> }
EmoteResults ==
    {[ok |-> FALSE, value |-> <<>>]} \cup [ok : {TRUE}, value : EmoteLists]

\* GetTwitchEmotesResponse of the platform endpoints: hasData is FALSE when the
\* response has no data field; a missing name or image url is the empty string.
TwitchEmote(name, url1, url2) == [name |-> name, url_1x |-> url1, url_2x |-> url2]
TwitchLists ==
    { <<>>,
      << TwitchEmote("Kappa", "t1", "t2") >>,
      << TwitchEmote("Kappa", "t1", "") >>,
      << TwitchEmote("LUL", "", ""), TwitchEmote("", "t1", "t2") >>,
      << TwitchEmote("LUL", "t1", "t2"), TwitchEmote("Kappa", "", "t2") >> }
TwitchResults ==
    {[ok |-> FALSE, hasData |-> FALSE, value |-> <<>>],
     [ok |-> TRUE, hasData |-> FALSE, value |-> <<>>]}
    \cup [ok : {TRUE}, hasData : {TRUE}, value : TwitchLists]

\* TwitchBadge[] of the badge endpoints.
BadgeLists ==
    { <<>>, << [setID |-> "sub", version |-> "1", imageURL |-> "b1"] >> }
BadgeResults ==
    {[ok |-> FALSE, value |-> <<>>]} \cup [ok : {TRUE}, value : BadgeLists]

EmptyMap == [k \in {} |-> ""]

\* map.set(k, v)
MapSet(m, k, v) == [x \in DOMAIN m \cup {k} |-> IF x = k THEN v ELSE m[x]]

\* emoteList.forEach(e => emoteMap.set(e.name, e.url))
RECURSIVE EmoteMap(_)
EmoteMap(list) ==
    IF list = <<>> THEN EmptyMap
    ELSE LET e == Last(list) IN
         MapSet(EmoteMap(SubSeq(list, 1, Len(list) - 1)), e.name, e.url)

\* url = e.images?.url_2x || e.images?.url_1x; if (e.name && url) emoteMap.set(e.name, url)
RECURSIVE TwitchEmoteMap(_)
TwitchEmoteMap(list) ==
    IF list = <<>> THEN EmptyMap
    ELSE LET e == Last(list)
             rest == TwitchEmoteMap(SubSeq(list, 1, Len(list) - 1))
             url == IF e.url_2x # "" THEN e.url_2x ELSE e.url_1x
         IN IF e.name # "" /\ url # "" THEN MapSet(rest, e.name, url) ELSE rest

\* forEach((v, k) => combined.set(k, v)): over's entries win.
Overlay(base, over) ==
    [k \in DOMAIN base \cup DOMAIN over |-> IF k \in DOMAIN over THEN over[k] ELSE base[k]]

\* The useMemo body: twitchGlobalEmotes, then globalEmotes, twitchChannelEmotes,
\* channelEmotes, each overriding the ones before.
CombinedChannelFirst(tg, g, tc, c) == Overlay(Overlay(Overlay(c, tc), g), tg)

Combined(tg, g, tc, c) == Overlay(Overlay(Overlay(tg, g), tc), c)

\* The results a load settled with; for a global load only its own field counts.
Settled(kind, emotes, badges, twitch) ==
    [kind |-> kind, emotes |-> emotes, badges |-> badges, twitch |-> twitch]
NoEmotes == [ok |-> FALSE, value |-> <<>>]
NoTwitch == [ok |-> FALSE, hasData |-> FALSE, value |-> <<>>]
NoneSettled == Settled("none", NoEmotes, NoEmotes, NoTwitch)

\* The results of the startup loads when a specification does not fix them.
NoStartup == [global |-> NoEmotes, twitch |-> NoTwitch, badges |-> NoEmotes]

\* The state after the mount effect has started the three global loads, which will
\* settle with the results s; getInitialChannel() gave the channel stored.
EmotesInitStored(s, stored) ==
    /\ globalEmotes = EmptyMap
    /\ twitchGlobalEmotes = EmptyMap
    /\ channelEmotes = EmptyMap
    /\ twitchChannelEmotes = EmptyMap
    /\ globalBadges = <<>>
    /\ channelBadges = <<>>
    /\ allEmotes = EmptyMap
    /\ emoteLoads = { [kind |-> "global", channelId |-> "", n |-> 0],
                      [kind |-> "twitchGlobal", channelId |-> "", n |-> 0],
                      [kind |-> "globalBadges", channelId |-> "", n |-> 0] }
    /\ channelLoadCount = 0
    /\ lastSettled = NoneSettled
    /\ startup = s
    /\ selectedId = stored
    /\ appliedFor = ""

\* The same with no channel stored from an earlier session.
EmotesInitWith(s) == EmotesInitStored(s, NoChannel)

EmotesInit == EmotesInitWith(NoStartup)

Pending(kind) == {l \in emoteLoads : l.kind = kind}

\* A variant in which a failed load of the third-party emotes also drops the
\* platform emotes.
GlobalEmotesSettleClearing(r) ==
    /\ \E l \in Pending("global") : emoteLoads' = emoteLoads \ {l}
    /\ globalEmotes' = IF r.ok THEN EmoteMap(r.value) ELSE globalEmotes
    /\ twitchGlobalEmotes' = IF r.ok THEN twitchGlobalEmotes ELSE EmptyMap
    /\ allEmotes' = Combined(twitchGlobalEmotes', globalEmotes', twitchChannelEmotes,
                             channelEmotes)
    /\ UNCHANGED <<channelEmotes, twitchChannelEmotes, globalBadges, channelBadges,
                   channelLoadCount>>

\* loadGlobalEmotes after its await.
GlobalEmotesSettle(r) ==
    /\ \E l \in Pending("global") : emoteLoads' = emoteLoads \ {l}
    /\ globalEmotes' = IF r.ok THEN EmoteMap(r.value) ELSE globalEmotes
    /\ allEmotes' = Combined(twitchGlobalEmotes, globalEmotes', twitchChannelEmotes,
                             channelEmotes)
    /\ UNCHANGED <<twitchGlobalEmotes, channelEmotes, twitchChannelEmotes, globalBadges,
                   channelBadges, channelLoadCount>>

\* loadTwitchGlobalEmotes after its await.
TwitchGlobalEmotesSettle(r) ==
    /\ \E l \in Pending("twitchGlobal") : emoteLoads' = emoteLoads \ {l}
    /\ twitchGlobalEmotes' =
          IF r.ok /\ r.hasData THEN TwitchEmoteMap(r.value) ELSE twitchGlobalEmotes
    /\ allEmotes' = Combined(twitchGlobalEmotes', globalEmotes, twitchChannelEmotes,
                             channelEmotes)
    /\ UNCHANGED <<globalEmotes, channelEmotes, twitchChannelEmotes, globalBadges,
                   channelBadges, channelLoadCount>>

\* loadGlobalBadges after its await.
GlobalBadgesSettle(r) ==
    /\ \E l \in Pending("globalBadges") : emoteLoads' = emoteLoads \ {l}
    /\ globalBadges' = IF r.ok THEN r.value ELSE globalBadges
    /\ UNCHANGED <<globalEmotes, twitchGlobalEmotes, channelEmotes, twitchChannelEmotes,
                   channelBadges, allEmotes, channelLoadCount>>

\* loadChannelEmotes(channelId) up to its await Promise.all.
LoadChannelEmotes(id) ==
    /\ channelLoadCount < MaxChannelLoads
    /\ channelLoadCount' = channelLoadCount + 1
    /\ emoteLoads' = emoteLoads \cup
          { [kind |-> "channel", channelId |-> id, n |-> channelLoadCount + 1] }
    /\ UNCHANGED <<globalEmotes, twitchGlobalEmotes, channelEmotes, twitchChannelEmotes,
                   globalBadges, channelBadges, allEmotes>>

\* loadChannelEmotes after Promise.all settles: it rejects when any of the three does.
ChannelEmotesSettle(l, emotes, badges, twitch) ==
    /\ l \in Pending("channel")
    /\ emoteLoads' = emoteLoads \ {l}
    /\ IF ~emotes.ok \/ ~badges.ok \/ ~twitch.ok
       THEN UNCHANGED <<channelEmotes, channelBadges, twitchChannelEmotes, allEmotes>>
       ELSE /\ channelEmotes' = EmoteMap(emotes.value)
            /\ channelBadges' = badges.value
            /\ twitchChannelEmotes' =
                  IF twitch.hasData THEN TwitchEmoteMap(twitch.value)
                  ELSE twitchChannelEmotes
            /\ allEmotes' = Combined(twitchGlobalEmotes, globalEmotes,
                                     twitchChannelEmotes', channelEmotes')
    /\ UNCHANGED <<globalEmotes, twitchGlobalEmotes, globalBadges, channelLoadCount>>

\* ------------------------------------------------------------------------
\* useChat: the outcome of a reconnect attempt
\* ------------------------------------------------------------------------

AttemptInit == attempts = {} /\ reconnectLog = <<>>

\* try { await invoke("connect_to_chat", { channel }); ... : the command of the
\* listener's continuation is awaited.
ReconnectInvoked(t) ==
    /\ ReconnectAfterDelay(t)
    /\ attempts' = IF t.payload = RecheckedChannel(t) THEN attempts \cup {t.n} ELSE attempts
    /\ UNCHANGED reconnectLog

\* The log line written when the awaited command settles.
ReconnectLine(n, outcome) ==
    [n |-> n, outcome |-> outcome, connects |-> Len(connects), selected |-> channel]

\* A variant that sets a new timer when the command was rejected.
ReconnectSettledRetrying(n, outcome) ==
    /\ n \in attempts
    /\ attempts' = attempts \ {n}
    /\ reconnectLog' = Append(reconnectLog, ReconnectLine(n, outcome))
    /\ timers' =
          IF outcome = "rejected" /\ now + ReconnectDelay <= MaxTime
          THEN timers \cup { [n |-> n, payload |-> notified[n].payload,
                              closure |-> notified[n].selected,
                              notifiedAt |-> now, due |-> now + ReconnectDelay] }
          ELSE timers
    /\ UNCHANGED <<policy, channel, currentChannelRef, messages, seenIds, connects,
                   accepted, lastEvent, selCount, notified, now>>

\* The awaited connect_to_chat settles: info("Successfully reconnected") or
\* logError("Failed to reconnect"), and nothing else.
ReconnectSettled(n, outcome) ==
    /\ n \in attempts
    /\ attempts' = attempts \ {n}
    /\ reconnectLog' = Append(reconnectLog, ReconnectLine(n, outcome))
    /\ UNCHANGED chatVars

\* ------------------------------------------------------------------------
\* VideoPlayer: the loadStream effect
\* ------------------------------------------------------------------------

MaxPlayerRuns == 4   \* renders of VideoPlayer with a change in its props

NoHls == 0
NoStream == ""
PlayerChannels == {"alpha", "beta"}
StreamIds == {"s1", "s2"}

\* The value get_stream_url resolves with for a login.
StreamUrl(login) == <<"usher", login, ".m3u8">>

PlayerInit ==
    /\ playerChannel = NoChannel
    /\ playerStream = NoStream
    /\ playerInstance = 0
    /\ hlsRef = NoHls
    /\ hlsAlive = {}
    /\ streamRequests = {}
    /\ hlsCount = 0
    /\ playerRuns = 0

\* instance.destroy(), a no-op on null and on an instance already destroyed.
Destroyed(alive, ref) == {i \in alive : i.id # ref}

\* Whether the previous run of the effect got past its early return and so
\* registered the cleanup.
CleanupRegistered == playerChannel # NoChannel /\ playerStream # NoStream

\* Whether the component renders the video element rather than the offline screen:
\* if (!userInfo?.stream && !isLoadingStream) return <offline screen>.
VideoRendered(c, stream, loading) == c # NoChannel /\ (stream # NoStream \/ loading)

\* The parent renders with the props channel = c, userInfo?.stream?.id = stream and
\* isLoadingStream = loading; with no channel it does not render the player, and the
\* next player is a new instance with refs of its own. When the channel or the stream
\* id changed, or the player is unmounted: the cleanup of the previous run of the
\* effect; when they changed, or the player is mounted: the effect.
PlayerProps(c, stream, loading) ==
    /\ playerRuns < MaxPlayerRuns
    /\ <<c, stream, loading>> # <<playerChannel, playerStream, isLoadingStream>>
    /\ c = NoChannel => stream = NoStream
    /\ playerRuns' = playerRuns + 1
    /\ playerChannel' = c
    /\ playerStream' = stream
    /\ isLoadingStream' = loading
    /\ playerInstance' =
          IF playerChannel = NoChannel /\ c # NoChannel THEN playerInstance + 1
          ELSE playerInstance
    /\ IF <<c, stream>> = <<playerChannel, playerStream>>
       THEN UNCHANGED <<hlsAlive, hlsRef, streamRequests>>
       ELSE /\ hlsAlive' = IF CleanupRegistered THEN Destroyed(hlsAlive, hlsRef)
                           ELSE hlsAlive
            /\ hlsRef' = IF CleanupRegistered \/ playerChannel = NoChannel THEN NoHls
                         ELSE hlsRef
            /\ streamRequests' =
                  IF c # NoChannel /\ stream # NoStream
                  THEN streamRequests \cup
                          { [n |-> playerRuns + 1, login |-> c,
                             instance |-> playerInstance'] }
                  ELSE streamRequests
    /\ UNCHANGED hlsCount

\* if (!videoRef.current) return; with the videoRef of the instance whose effect
\* issued the request: null once that instance is unmounted, and while it shows the
\* offline screen.
Attaches(r) ==
    /\ r.instance = playerInstance
    /\ VideoRendered(playerChannel, playerStream, isLoadingStream)

\* get_stream_url resolves: the continuation of loadStream.
StreamUrlResolved(r) ==
    /\ r \in streamRequests
    /\ streamRequests' = streamRequests \ {r}
    /\ IF Attaches(r)
       THEN /\ hlsAlive' = Destroyed(hlsAlive, hlsRef) \cup
                              {[id |-> hlsCount + 1, url |-> StreamUrl(r.login)]}
            /\ hlsRef' = hlsCount + 1
            /\ hlsCount' = hlsCount + 1
       ELSE UNCHANGED <<hlsAlive, hlsRef, hlsCount>>
    /\ UNCHANGED <<playerChannel, playerStream, playerInstance, playerRuns,
                   isLoadingStream>>

\* get_stream_url rejects: the catch block of loadStream.
StreamUrlRejected(r) ==
    /\ r \in streamRequests
    /\ streamRequests' = streamRequests \ {r}
    /\ isLoadingStream' = FALSE
    /\ UNCHANGED <<playerChannel, playerStream, playerInstance, hlsRef, hlsAlive,
                   hlsCount, playerRuns>>

\* Hls.Events.MANIFEST_PARSED on a live instance.
ManifestParsed(i) ==
    /\ i \in hlsAlive
    /\ isLoadingStream' = FALSE
    /\ UNCHANGED <<playerChannel, playerStream, playerInstance, hlsRef, hlsAlive,
                   streamRequests, hlsCount, playerRuns>>

\* Hls.Events.ERROR, fatal and neither a network nor a media error: hls.destroy().
FatalError(i) ==
    /\ i \in hlsAlive
    /\ hlsAlive' = hlsAlive \ {i}
    /\ isLoadingStream' = FALSE
    /\ UNCHANGED <<playerChannel, playerStream, playerInstance, hlsRef, streamRequests,
                   hlsCount, playerRuns>>

\* ------------------------------------------------------------------------
\* useSearch
\* ------------------------------------------------------------------------

DebounceDelay == 300  \* setTimeout(() => { search(query); }, 300)

MaxQueries == 3       \* timers set by the debounce effect
MaxSearchTime == 600  \* the time stops advancing here

NoTimer == 0
NoQuery == <<"<none>">>
Queries == { <<>>, <<" ">>, <<"a">>, <<"a", "b">> }
SearchSteps == {100, 300}

\* The edges search_channels may resolve with (nodes named by their login).
ResultLists == { <<>>, <<"alpha">> }

SearchInit ==
    /\ query = <<>>
    /\ results = <<>>
    /\ showResults = FALSE
    /\ timeoutRef = NoTimer
    /\ searchTimers = {}
    /\ searchRequests = {}
    /\ searchNow = 0
    /\ searchCount = 0
    /\ searchLog = <<>>
    /\ resultsFor = NoQuery
    /\ picked = NoChannel

\* clearTimeout(timeoutRef.current)
Cleared(pending) == {t \in pending : t.id # timeoutRef}

\* The debounce effect for a new query value: cleanup of the previous run, then the run.
QueryChanged(q) ==
    /\ query' = q
    /\ IF Trim(q) # <<>>
       THEN /\ searchTimers' = Cleared(searchTimers) \cup
                  { [id |-> searchCount + 1, query |-> q, setAt |-> searchNow,
                     due |-> searchNow + DebounceDelay] }
            /\ timeoutRef' = searchCount + 1
            /\ searchCount' = searchCount + 1
            /\ UNCHANGED <<results, showResults, resultsFor>>
       ELSE /\ searchTimers' = Cleared(searchTimers)
            /\ results' = <<>>
            /\ showResults' = FALSE
            /\ resultsFor' = NoQuery
            /\ UNCHANGED <<timeoutRef, searchCount>>

\* setQuery(q) from the search box.
SetQuery(q) ==
    /\ q # query
    /\ searchCount < MaxQueries
    /\ QueryChanged(q)
    /\ UNCHANGED <<searchRequests, searchNow, searchLog, picked>>

\* The debounce timer runs: search(query) with the query of the render that set it.
SearchTimerFires(t) ==
    /\ t \in searchTimers
    /\ searchNow >= t.due
    /\ searchTimers' = searchTimers \ {t}
    /\ IF Trim(t.query) = <<>>
       THEN /\ results' = <<>>
            /\ showResults' = FALSE
            /\ resultsFor' = NoQuery
            /\ UNCHANGED <<searchRequests, searchLog>>
       ELSE /\ searchRequests' = searchRequests \cup {[n |-> t.id, query |-> t.query]}
            /\ searchLog' = Append(searchLog, [query |-> t.query, setAt |-> t.setAt,
                                               at |-> searchNow, current |-> query])
            /\ UNCHANGED <<results, showResults, resultsFor>>
    /\ UNCHANGED <<query, timeoutRef, searchNow, searchCount, picked>>

\* search_channels resolves, with edges or with an unexpected format.
SearchResolved(r, hasEdges, edges) ==
    /\ r \in searchRequests
    /\ searchRequests' = searchRequests \ {r}
    /\ IF hasEdges
       THEN /\ results' = edges
            /\ showResults' = TRUE
            /\ resultsFor' = r.query
       ELSE /\ results' = <<>>
            /\ showResults' = FALSE
            /\ resultsFor' = NoQuery
    /\ UNCHANGED <<query, timeoutRef, searchTimers, searchNow, searchCount, searchLog,
                   picked>>

\* search_channels rejects: the catch block of search.
SearchRejected(r) ==
    /\ r \in searchRequests
    /\ searchRequests' = searchRequests \ {r}
    /\ results' = <<>>
    /\ resultsFor' = NoQuery
    /\ UNCHANGED <<query, showResults, timeoutRef, searchTimers, searchNow, searchCount,
                   searchLog, picked>>

\* setQuery(""), setResults([]), setShowResults(false); the effect runs if the query
\* was not "" already.
Reset ==
    /\ IF query # <<>>
       THEN QueryChanged(<<>>)
       ELSE /\ results' = <<>>
            /\ showResults' = FALSE
            /\ resultsFor' = NoQuery
            /\ UNCHANGED <<query, timeoutRef, searchTimers, searchCount>>
    /\ UNCHANGED <<searchRequests, searchNow, searchLog>>

\* selectResult(result) for a result of the list shown.
SelectResult(i) ==
    /\ showResults
    /\ i \in DOMAIN results
    /\ picked' = results[i]
    /\ Reset

\* clearSearch()
ClearSearch ==
    /\ query # <<>> \/ results # <<>> \/ showResults
    /\ Reset
    /\ UNCHANGED picked

\* setShowResults(show), the setter the hook returns: the search box on focus and the
\* backdrop behind the list call it.
SetShowResults(show) ==
    /\ show # showResults
    /\ showResults' = show
    /\ UNCHANGED <<query, results, timeoutRef, searchTimers, searchRequests, searchNow,
                   searchCount, searchLog, resultsFor, picked>>

\* Time passes.
SearchTick(d) ==
    /\ searchNow + d <= MaxSearchTime
    /\ searchNow' = searchNow + d
    /\ UNCHANGED <<query, results, showResults, timeoutRef, searchTimers, searchRequests,
                   searchCount, searchLog, resultsFor, picked>>

\* ------------------------------------------------------------------------
\* useTopStreams
\* ------------------------------------------------------------------------

MaxTopCalls == 6   \* loadTopStreams calls

\* The streams get_top_streams may resolve with (nodes named by their id).
StreamLists == { <<>>, <<"s1">>, <<"s2">>, <<"s2", "s1">> }
TopOutcomes == {"edges", "unexpected format", "failed"}

TopInit ==
    /\ topStreams = <<>>
    /\ isLoading = FALSE
    /\ isLoadingRef = FALSE
    /\ topRequests = {}
    /\ topCalls = 0

\* A variant without the guard (the second useTopStreams of part_002).
GuardNeverHeld == FALSE

\* if (isLoadingRef.current) return;
GuardHeld == isLoadingRef

\* loadTopStreams(isRefresh) up to its await.
LoadTopStreams(isRefresh) ==
    /\ topCalls < MaxTopCalls
    /\ topCalls' = topCalls + 1
    /\ IF GuardHeld
       THEN UNCHANGED <<topStreams, isLoading, isLoadingRef, topRequests>>
       ELSE /\ isLoadingRef' = TRUE
            /\ isLoading' = IF isRefresh THEN isLoading ELSE TRUE
            /\ topRequests' = topRequests \cup
                                 {[n |-> topCalls + 1, isRefresh |-> isRefresh]}
            /\ UNCHANGED topStreams

\* get_top_streams settles: the rest of the try block, the catch block, and finally.
TopStreamsSettled(r, outcome, streams) ==
    /\ r \in topRequests
    /\ topRequests' = topRequests \ {r}
    /\ topStreams' = IF outcome = "edges" THEN streams ELSE topStreams
    /\ isLoading' = IF r.isRefresh THEN isLoading ELSE FALSE
    /\ isLoadingRef' = FALSE
    /\ UNCHANGED topCalls

\* ------------------------------------------------------------------------
\* App: the "load channel data" effect (the App with isMounted and loadingChannelRef)
\* ------------------------------------------------------------------------

MaxLookups == 3   \* get_user_info commands of the effect

HostInit ==
    /\ isLoadingStream = FALSE
    /\ isMounted = FALSE
    /\ loadingChannelRef = NoChannel
    /\ awaiting = {}
    /\ lookupCount = 0

\* The timer of the init effect, 100 ms after the mount:
\* isMounted.current = true; loadTopStreams().
MountTimerFires ==
    /\ ~isMounted
    /\ isMounted' = TRUE
    /\ LoadTopStreams(FALSE)
    /\ UNCHANGED <<isLoadingStream, loadingChannelRef, awaiting, lookupCount>>

\* The effect runs for the channel c, up to the first await of loadChannelData: after
\* setChannel(c), or, with c the channel already selected, after isLoggedIn, selfInfo
\* or loadChannelEmotes changed. It does nothing before the mount timer has run and
\* nothing while loadingChannelRef holds c. The emote tables are not touched. (A
\* channel's login and its id are one name here; the userInfo state, which the effect
\* sets and VideoPlayer receives, is not kept: PlayerProps takes it as an input.)
ChannelChanged(c) ==
    /\ selectedId' = c
    /\ IF ~isMounted
       THEN UNCHANGED <<emoteLoads, isLoadingStream, loadingChannelRef, lookupCount>>
       ELSE IF c = NoChannel
       THEN /\ loadingChannelRef' = NoChannel
            /\ UNCHANGED <<emoteLoads, isLoadingStream, lookupCount>>
       ELSE IF loadingChannelRef = c
       THEN UNCHANGED <<emoteLoads, isLoadingStream, loadingChannelRef, lookupCount>>
       ELSE /\ lookupCount < MaxLookups
            /\ loadingChannelRef' = c
            /\ isLoadingStream' = TRUE
            /\ lookupCount' = lookupCount + 1
            /\ emoteLoads' = emoteLoads \cup
                  { [kind |-> "userInfo", channelId |-> c, n |-> lookupCount + 1] }
    /\ UNCHANGED <<globalEmotes, twitchGlobalEmotes, channelEmotes, twitchChannelEmotes,
                   globalBadges, channelBadges, allEmotes, channelLoadCount, isMounted,
                   awaiting>>

\* The end of loadChannelData, after await Promise.all and in the catch block alike:
\* setIsLoadingStream(false); loadingChannelRef.current = null.
LoadEnds ==
    /\ isLoadingStream' = FALSE
    /\ loadingChannelRef' = NoChannel

\* loadChannelData after get_user_info settles. For a live channel it calls
\* loadChannelEmotes(data.user.id) and, when watch (isLoggedIn && selfInfo) holds,
\* update_watch_state, and awaits both; for an offline channel and after a failed
\* lookup it starts no load and ends.
UserInfoSettled(l, outcome, watch) ==
    /\ l \in Pending("userInfo")
    /\ IF outcome = "live"
       THEN /\ channelLoadCount < MaxChannelLoads
            /\ channelLoadCount' = channelLoadCount + 1
            /\ emoteLoads' = (emoteLoads \ {l}) \cup
                  { [kind |-> k, channelId |-> l.channelId, n |-> channelLoadCount + 1] :
                       k \in IF watch THEN {"channel", "watchState"} ELSE {"channel"} }
            /\ awaiting' = awaiting \cup {channelLoadCount + 1}
            /\ UNCHANGED <<isLoadingStream, loadingChannelRef>>
       ELSE /\ emoteLoads' = emoteLoads \ {l}
            /\ LoadEnds
            /\ UNCHANGED <<channelLoadCount, awaiting>>
    /\ UNCHANGED <<globalEmotes, twitchGlobalEmotes, channelEmotes, twitchChannelEmotes,
                   globalBadges, channelBadges, allEmotes, isMounted, lookupCount>>

\* The promise of loadChannelEmotes for the load l fulfils (loadChannelEmotes catches
\* its own failures): Promise.all fulfils with it unless update_watch_state is still
\* pending or has rejected.
EmotesPromiseFulfilled(l) ==
    /\ IF l.n \in awaiting /\ ~\E w \in Pending("watchState") : w.n = l.n
       THEN LoadEnds /\ awaiting' = awaiting \ {l.n}
       ELSE UNCHANGED <<isLoadingStream, loadingChannelRef, awaiting>>
    /\ UNCHANGED <<isMounted, lookupCount>>

\* update_watch_state settles: Promise.all rejects at once when it rejects, and fulfils
\* when it resolves after loadChannelEmotes has.
WatchStateSettled(w, ok) ==
    /\ w \in Pending("watchState")
    /\ emoteLoads' = emoteLoads \ {w}
    /\ IF w.n \in awaiting /\ (~ok \/ ~\E l \in Pending("channel") : l.n = w.n)
       THEN LoadEnds /\ awaiting' = awaiting \ {w.n}
       ELSE UNCHANGED <<isLoadingStream, loadingChannelRef, awaiting>>
    /\ UNCHANGED <<globalEmotes, twitchGlobalEmotes, channelEmotes, twitchChannelEmotes,
                   globalBadges, channelBadges, allEmotes, channelLoadCount, isMounted,
                   lookupCount>>

UiInit == AttemptInit /\ PlayerInit /\ SearchInit /\ TopInit /\ HostInit

\* ------------------------------------------------------------------------
\* Specifications
\* ------------------------------------------------------------------------

\* Each component runs on its own: a step of one leaves the others' variables alone.
LoaderOnly ==
    UNCHANGED <<chatVars, emoteVars, sendVars, received, viewVars, lastSettled, emoteHist,
               uiVars>>
ChatOnly ==
    UNCHANGED <<loaderVars, emoteVars, sendVars, received, viewVars, lastSettled, emoteHist,
               uiVars>>
EmotesOnly ==
    UNCHANGED <<loaderVars, chatVars, sendVars, received, viewVars, lastSettled, emoteHist,
               uiVars>>
SendOnly ==
    UNCHANGED <<loaderVars, emoteVars, received, viewVars, lastSettled, emoteHist,
               uiVars>>
ChatReceiving ==
    UNCHANGED <<loaderVars, emoteVars, sendVars, viewVars, lastSettled, emoteHist,
               uiVars>>
EmotesSettling ==
    UNCHANGED <<loaderVars, chatVars, sendVars, received, viewVars, emoteHist,
               uiVars>>
ViewOnly ==
    UNCHANGED <<loaderVars, chatVars, emoteVars, sendVars, received, lastSettled, emoteHist,
               uiVars>>

appVars == <<loaderVars, chatVars, emoteVars, sendVars, received, viewVars, lastSettled,
             emoteHist>>
ChatRetrying ==
    UNCHANGED <<loaderVars, emoteVars, sendVars, received, viewVars, lastSettled, emoteHist,
               playerVars, searchVars, topVars, isLoadingStream, hostVars>>
PlayerOnly == UNCHANGED <<appVars, attemptVars, searchVars, topVars, hostVars>>
SearchOnly ==
    UNCHANGED <<appVars, attemptVars, playerVars, topVars, isLoadingStream, hostVars>>
TopOnly ==
    UNCHANGED <<appVars, attemptVars, playerVars, searchVars, isLoadingStream, hostVars>>

Unlogged == UNCHANGED settled

LoaderNext ==
    \/ \E url \in PlainUrls, hasOnAbort \in BOOLEAN :
          Load(url, hasOnAbort) /\ Unlogged /\ LoaderOnly
    \/ Abort /\ Unlogged /\ LoaderOnly
    \/ Destroy /\ Unlogged /\ LoaderOnly
    \/ \E call \in calls, throws \in BOOLEAN :
          \E raw \in (IF call.cmd = "fetch_m3u8" THEN Texts ELSE ByteLists) :
             Resolve(call, raw, throws) /\ Unlogged /\ LoaderOnly
    \/ \E call \in calls, err \in Errors : Reject(call, err) /\ Unlogged /\ LoaderOnly
    \/ PerfTick /\ Unlogged /\ LoaderOnly

\* The loader used as the streaming engine uses it, one request at a time per
\* instance, with every settlement of a bridge call logged.
Settlement(call, outcome, value) ==
    [load |-> call.load, cmd |-> call.cmd, url |-> call.url, outcome |-> outcome,
     value |-> value, at |-> Len(trace), aborted |-> stats.aborted,
     destroyed |-> destroyed]

Logged(call, outcome, value) ==
    settled' = Append(settled, Settlement(call, outcome, value))

BridgeNext ==
    \/ \E url \in Urls, hasOnAbort \in BOOLEAN :
          calls = {} /\ Load(url, hasOnAbort) /\ Unlogged /\ LoaderOnly
    \/ Abort /\ Unlogged /\ LoaderOnly
    \/ Destroy /\ Unlogged /\ LoaderOnly
    \/ \E call \in calls, throws \in BOOLEAN :
          \E raw \in (IF call.cmd = "fetch_m3u8" THEN Texts ELSE ByteLists) :
             Resolve(call, raw, throws) /\ Logged(call, "resolved", raw) /\ LoaderOnly
    \/ \E call \in calls, err \in Errors :
          Reject(call, err) /\ Logged(call, "rejected", err) /\ LoaderOnly

\* The loader with one request at a time, on a moving clock.
StampNext ==
    \/ \E url \in PlainUrls, hasOnAbort \in BOOLEAN :
          calls = {} /\ Load(url, hasOnAbort) /\ Unlogged /\ LoaderOnly
    \/ Abort /\ Unlogged /\ LoaderOnly
    \/ Destroy /\ Unlogged /\ LoaderOnly
    \/ \E call \in calls, throws \in BOOLEAN :
          \E raw \in (IF call.cmd = "fetch_m3u8" THEN Texts ELSE ByteLists) :
             Resolve(call, raw, throws) /\ Unlogged /\ LoaderOnly
    \/ \E call \in calls, err \in Errors :
          Reject(call, err) /\ Unlogged /\ LoaderOnly
    \/ PerfTick /\ Unlogged /\ LoaderOnly

\* The loader with loads that overlap on one instance, on a clock that stands still.
OverlapNext ==
    \/ \E url \in PlainUrls, hasOnAbort \in BOOLEAN :
          Load(url, hasOnAbort) /\ Unlogged /\ LoaderOnly
    \/ Abort /\ Unlogged /\ LoaderOnly
    \/ Destroy /\ Unlogged /\ LoaderOnly
    \/ \E call \in calls, throws \in BOOLEAN :
          \E raw \in (IF call.cmd = "fetch_m3u8" THEN Texts ELSE ByteLists) :
             Resolve(call, raw, throws) /\ Unlogged /\ LoaderOnly
    \/ \E call \in calls, err \in Errors : Reject(call, err) /\ Unlogged /\ LoaderOnly

\* The reconnect loop with the outcome of every reconnect attempt.
RetryNext ==
    \/ \E c \in Selections : SelectChannel(c) /\ UNCHANGED attemptVars /\ ChatRetrying
    \/ \E d \in Channels :
          /\ Len(notified) < MaxRetries
          /\ ChatDisconnected(d) /\ UNCHANGED attemptVars /\ ChatRetrying
    \/ \E t \in timers : ReconnectInvoked(t) /\ ChatRetrying
    \/ \E n \in attempts, outcome \in {"resolved", "rejected"} :
          ReconnectSettled(n, outcome) /\ ChatRetrying
    \/ \E d \in TickSteps :
          now + d <= MaxTime /\ Tick(d) /\ UNCHANGED attemptVars /\ ChatRetrying

\* The player under the renders of App and the settlements of its requests.
PlayerNext ==
    \/ \E c \in PlayerChannels \cup {NoChannel}, stream \in StreamIds \cup {NoStream},
          loading \in BOOLEAN :
             PlayerProps(c, stream, loading) /\ PlayerOnly
    \/ \E r \in streamRequests : StreamUrlResolved(r) /\ PlayerOnly
    \/ \E r \in streamRequests : StreamUrlRejected(r) /\ PlayerOnly
    \/ \E i \in hlsAlive : ManifestParsed(i) /\ PlayerOnly
    \/ \E i \in hlsAlive : FatalError(i) /\ PlayerOnly

\* The search box.
SearchNext ==
    \/ \E q \in Queries : SetQuery(q) /\ SearchOnly
    \/ \E t \in searchTimers : SearchTimerFires(t) /\ SearchOnly
    \/ \E r \in searchRequests, hasEdges \in BOOLEAN :
          \E edges \in (IF hasEdges THEN ResultLists ELSE {<<>>}) :
             SearchResolved(r, hasEdges, edges) /\ SearchOnly
    \/ \E r \in searchRequests : SearchRejected(r) /\ SearchOnly
    \/ \E i \in DOMAIN results : SelectResult(i) /\ SearchOnly
    \/ ClearSearch /\ SearchOnly
    \/ \E show \in BOOLEAN : SetShowResults(show) /\ SearchOnly
    \/ \E d \in SearchSteps : SearchTick(d) /\ SearchOnly

\* The browse list.
TopNext ==
    \/ \E isRefresh \in BOOLEAN : LoadTopStreams(isRefresh) /\ TopOnly
    \/ \E r \in topRequests, outcome \in TopOutcomes :
          \E streams \in (IF outcome = "edges" THEN StreamLists ELSE {<<>>}) :
             TopStreamsSettled(r, outcome, streams) /\ TopOnly

ChatNext ==
    \/ \E c \in Selections : SelectChannel(c) /\ ChatOnly
    \/ \E msg \in EventsOf(policy) :
          Len(accepted) < MaxEvents /\ ChatMessage(msg) /\ ChatOnly
    \/ \E d \in Channels :
          Len(notified) < MaxDisconnects /\ ChatDisconnected(d) /\ ChatOnly
    \/ \E t \in timers : ReconnectAfterDelay(t) /\ ChatOnly
    \/ \E d \in TickSteps : now + d <= MaxTime /\ Tick(d) /\ ChatOnly

\* The reconnect loop: the channel effect, the chat-disconnected listener and its
\* timer, without the chat-message listener (which touches none of their state).
ClockStep == \E d \in TickSteps : now + d <= MaxTime /\ Tick(d) /\ ChatOnly
TimerStep(n) == \E t \in timers : t.n = n /\ ReconnectAfterDelay(t) /\ ChatOnly

ReconnectNext ==
    \/ \E c \in Selections : SelectChannel(c) /\ ChatOnly
    \/ \E d \in Channels :
          Len(notified) < MaxRetries /\ ChatDisconnected(d) /\ ChatOnly
    \/ \E n \in 1..MaxRetries : TimerStep(n)
    \/ ClockStep

\* The reconnect loop on a clock that also stops inside the delay.
DelayNext ==
    \/ \E c \in Selections : SelectChannel(c) /\ ChatOnly
    \/ \E d \in Channels :
          Len(notified) < MaxRetries /\ ChatDisconnected(d) /\ ChatOnly
    \/ \E t \in timers : ReconnectAfterDelay(t) /\ ChatOnly
    \/ \E d \in HalfSteps : now + d <= MaxTime /\ Tick(d) /\ ChatOnly

\* Sending, next to the channel effect and the chat-message listener.
SendNext ==
    \/ \E c \in Selections : SelectChannel(c) /\ ChatOnly
    \/ \E msg \in EventsOf(policy) : accepted = <<>> /\ ChatMessage(msg) /\ ChatOnly
    \/ \E b \in BOOLEAN : SetLoggedIn(b) /\ SendOnly
    \/ \E text \in SendTexts : SendMessage(text) /\ SendOnly
    \/ \E n \in pendingSends : SendResolved(n) /\ SendOnly
    \/ \E n \in pendingSends, err \in SendErrors : SendRejected(n, err) /\ SendOnly

\* The chat-message listener and the channel effect, with every event of the session
\* logged in the order the listener receives it.
OrderNext ==
    \/ \E c \in Selections :
          SelectChannel(c) /\ received' = <<>> /\ ChatReceiving
    \/ \E msg \in EventsOf(policy) :
          /\ Len(received) < MaxReceived
          /\ ChatMessage(msg) /\ received' = Append(received, msg) /\ ChatReceiving

\* The chat-message listener and the channel effect when the requested name may
\* differ from the name the server confirms; events carry confirmed names.
JoinNext ==
    \/ \E c \in Requests : SelectChannel(c) /\ ChatOnly
    \/ \E msg \in EventsOf(policy) :
          Len(accepted) < MaxEvents /\ ChatMessage(msg) /\ ChatOnly

\* The results with at most one entry.
Short(rs) == {r \in rs : Len(r.value) <= 1}

\* The loads of useEmotes, one channel load at a time, with the results of every
\* settlement kept.
IsolationNext ==
    \/ \E r \in Short(EmoteResults) :
          /\ GlobalEmotesSettle(r) /\ EmotesSettling
          /\ lastSettled' = Settled("global", r, NoEmotes, NoTwitch)
    \/ \E r \in Short(TwitchResults) :
          /\ TwitchGlobalEmotesSettle(r) /\ EmotesSettling
          /\ lastSettled' = Settled("twitchGlobal", NoEmotes, NoEmotes, r)
    \/ \E r \in Short(BadgeResults) :
          /\ GlobalBadgesSettle(r) /\ EmotesSettling
          /\ lastSettled' = Settled("globalBadges", NoEmotes, r, NoTwitch)
    \/ \E id \in ChannelIds :
          Pending("channel") = {} /\ LoadChannelEmotes(id) /\ EmotesOnly
    \/ \E l \in emoteLoads :
          \E emotes \in Short(EmoteResults), badges \in Short(BadgeResults), twitch \in Short(TwitchResults) :
             /\ ChannelEmotesSettle(l, emotes, badges, twitch) /\ EmotesSettling
             /\ lastSettled' = Settled("channel", emotes, badges, twitch)

\* Channel selections in App and the channel loads they start, with the channel of the
\* load that last set the channel tables kept.
SelectionFrame ==
    UNCHANGED <<loaderVars, chatVars, sendVars, received, viewVars, lastSettled, startup,
               attemptVars, playerVars, searchVars>>

SelectionNext ==
    \/ /\ MountTimerFires
       /\ UNCHANGED <<emoteVars, selectedId, appliedFor>> /\ SelectionFrame
    \/ \E c \in ChannelIds \cup {NoChannel} :
          /\ ChannelChanged(c)
          /\ UNCHANGED <<appliedFor, topVars>> /\ SelectionFrame
    \/ \E l \in emoteLoads, outcome \in {"live", "offline", "failed"}, watch \in BOOLEAN :
          /\ UserInfoSettled(l, outcome, watch)
          /\ UNCHANGED <<selectedId, appliedFor, topVars>> /\ SelectionFrame
    \/ \E l \in emoteLoads :
          \E emotes \in Short(EmoteResults), badges \in Short(BadgeResults),
             twitch \in Short(TwitchResults) :
             /\ ChannelEmotesSettle(l, emotes, badges, twitch)
             /\ EmotesPromiseFulfilled(l)
             /\ appliedFor' = IF emotes.ok /\ badges.ok /\ twitch.ok
                              THEN l.channelId ELSE appliedFor
             /\ UNCHANGED <<selectedId, topVars>> /\ SelectionFrame
    \/ \E w \in emoteLoads, ok \in BOOLEAN :
          /\ WatchStateSettled(w, ok)
          /\ UNCHANGED <<selectedId, appliedFor, topVars>> /\ SelectionFrame

\* The three startup loads, settling in any order with the results fixed at the start.
StartupNext ==
    \/ GlobalEmotesSettle(startup.global) /\ EmotesOnly
    \/ TwitchGlobalEmotesSettle(startup.twitch) /\ EmotesOnly
    \/ GlobalBadgesSettle(startup.badges) /\ EmotesOnly

ViewNext == \E props \in ViewPropsSet : Render(props) /\ ViewOnly

EmotesNext ==
    \/ \E r \in EmoteResults : GlobalEmotesSettle(r) /\ EmotesOnly
    \/ \E r \in TwitchResults : TwitchGlobalEmotesSettle(r) /\ EmotesOnly
    \/ \E r \in BadgeResults : GlobalBadgesSettle(r) /\ EmotesOnly
    \/ \E id \in ChannelIds : LoadChannelEmotes(id) /\ EmotesOnly
    \/ \E l \in emoteLoads :
          \E emotes \in EmoteResults, badges \in BadgeResults, twitch \in TwitchResults :
             ChannelEmotesSettle(l, emotes, badges, twitch) /\ EmotesOnly

\* The chat-message listener and the channel effect on the fine clock, where the
\* 100 ms suppression window of part_003 can be crossed.
ContentNext ==
    \/ \E c \in Selections : SelectChannel(c) /\ ChatOnly
    \/ \E msg \in EventsOf(policy) :
          Len(accepted) < MaxFineEvents /\ ChatMessage(msg) /\ ChatOnly
    \/ \E d \in FineSteps : now + d <= MaxFineTime /\ Tick(d) /\ ChatOnly

\* A long session: one fresh event after another (fresh id, text alternating, so that
\* neither policy suppresses it), and every kind of event once the history is nearly full.
FreshEvent ==
    [channel |-> "alpha", user |-> "u1",
     message |-> IF Len(accepted) % 2 = 0 THEN "hi" ELSE "yo",
     id |-> Len(accepted) + 3]

LongEvents ==
    {FreshEvent} \cup (IF Len(messages) >= HistoryCap - 1 THEN EventsOf(policy) ELSE {})

LongNext ==
    \/ \E msg \in LongEvents : Len(accepted) < MaxLong /\ ChatMessage(msg) /\ ChatOnly
    \/ \E c \in Selections :
          Len(messages) = HistoryCap /\ SelectChannel(c) /\ ChatOnly

\* A session long enough to fill the seen-id window: fresh ids one after another and,
\* once the window is nearly full, events that repeat the first id ever seen and the
\* oldest id of the window.
RepeatedEvents ==
    IF Len(seenIds) >= SeenCap - 1
    THEN {[FreshEvent EXCEPT !.id = i] : i \in {3, Head(seenIds)}}
    ELSE {}

SeenNext ==
    \/ \E msg \in {FreshEvent} \cup RepeatedEvents :
          Len(accepted) < MaxSeen /\ ChatMessage(msg) /\ ChatOnly
    \/ \E c \in Selections :
          Len(seenIds) >= SeenCap - 1 /\ SelectChannel(c) /\ ChatOnly

\* The loader alone.
LoaderSpecInit == LoaderInit /\ SendInit /\ ViewInit /\ UiInit /\ ChatInitFor("id", Null) /\ EmotesInit

LoaderSpec == LoaderSpecInit /\ [][LoaderNext]_vars

\* The loader with one request at a time and logged settlements.
BridgeSpec == LoaderSpecInit /\ [][BridgeNext]_vars

\* The loader with overlapping loads.
OverlapSpec == LoaderSpecInit /\ [][OverlapNext]_vars

\* The components of the app shell, each started from its mount.
ShellInit ==
    /\ LoaderInit /\ SendInit /\ ViewInit /\ UiInit /\ EmotesInit
    /\ ChatInitFor("id", Null)

\* The video player.
PlayerSpec == ShellInit /\ [][PlayerNext]_vars

\* The search hook.
SearchSpec == ShellInit /\ [][SearchNext]_vars

\* The top-streams hook.
TopSpec == ShellInit /\ [][TopNext]_vars

\* The loader with one request at a time on a moving clock.
StampSpec == LoaderSpecInit /\ [][StampNext]_vars

\* The chat hook alone, under either dedup policy, on the coarse clock.
Init == LoaderInit /\ SendInit /\ ViewInit /\ UiInit /\ ChatInit /\ EmotesInit

Spec == Init /\ [][ChatNext]_vars

\* The reconnect loop with the scheduling the runtime guarantees: time passes, and a
\* timer that is due runs.
FairInit ==
    /\ LoaderInit /\ SendInit /\ ViewInit /\ UiInit /\ EmotesInit
    /\ \E c \in Selections : ChatInitFor("id", c)

FairSpec ==
    /\ FairInit
    /\ [][ReconnectNext]_vars
    /\ WF_vars(ClockStep)
    /\ \A n \in 1..MaxRetries : WF_vars(TimerStep(n))

\* The reconnect attempts of the chat-disconnected listener.
RetrySpec == FairInit /\ [][RetryNext]_vars

\* The reconnect loop with time observed every 1000 ms.
DelaySpec == FairInit /\ [][DelayNext]_vars

\* sendMessage with the chat hook around it.
SendSpec == FairInit /\ [][SendNext]_vars

\* The listener with its input logged.
OrderInit ==
    /\ LoaderInit /\ SendInit /\ ViewInit /\ UiInit /\ EmotesInit
    /\ \E p \in {"id", "content"} : ChatInitFor(p, "alpha")

OrderSpec == OrderInit /\ [][OrderNext]_vars

\* The identity-based listener over a session that overflows the seen-id window.
SeenInit == LoaderInit /\ SendInit /\ ViewInit /\ UiInit /\ EmotesInit /\ ChatInitFor("id", "alpha")

SeenSpec == SeenInit /\ [][SeenNext]_vars

\* The listener for requested names in any spelling.
JoinInit ==
    /\ LoaderInit /\ SendInit /\ ViewInit /\ UiInit /\ EmotesInit
    /\ \E c \in Requests : ChatInitFor("id", c)

JoinSpec == JoinInit /\ [][JoinNext]_vars

\* part_003 on the fine clock.
ContentInit ==
    /\ LoaderInit /\ SendInit /\ ViewInit /\ UiInit /\ EmotesInit
    /\ \E c \in Selections : ChatInitFor("content", c)

ContentSpec == ContentInit /\ [][ContentNext]_vars

\* A session long enough to fill the history.
LongInit ==
    /\ LoaderInit /\ SendInit /\ ViewInit /\ UiInit /\ EmotesInit
    /\ \E p \in {"id", "content"} : ChatInitFor(p, "alpha")

LongSpec == LongInit /\ [][LongNext]_vars

\* The emote tables alone.
EmotesSpecInit == LoaderInit /\ SendInit /\ ViewInit /\ UiInit /\ ChatInitFor("id", Null) /\ EmotesInit

EmotesSpec == EmotesSpecInit /\ [][EmotesNext]_vars

\* The emote tables with the settled results kept.
IsolationSpec == EmotesSpecInit /\ [][IsolationNext]_vars

\* The startup loads for every choice of their results.
StartupInit ==
    /\ LoaderInit /\ SendInit /\ ViewInit /\ UiInit /\ ChatInitFor("id", Null)
    /\ \E g \in EmoteResults, t \in TwitchResults, b \in BadgeResults :
          EmotesInitWith([global |-> g, twitch |-> t, badges |-> b])

StartupSpec == StartupInit /\ [][StartupNext]_vars

\* The channel tables over a session of channel selections.
SelectionInit ==
    /\ LoaderInit /\ SendInit /\ ViewInit /\ UiInit /\ ChatInitFor("id", Null)
    /\ \E stored \in ChannelIds \cup {NoChannel} : EmotesInitStored(NoStartup, stored)

SelectionSpec == SelectionInit /\ [][SelectionNext]_vars

\* A chat message view alone.
ViewSpec == EmotesSpecInit /\ [][ViewNext]_vars

\* ------------------------------------------------------------------------
\* Claims
\* ------------------------------------------------------------------------

Callbacks(ops) == {k \in DOMAIN trace : trace[k].op \in ops}

\* C1: once abort() has returned, neither onSuccess nor onError is invoked for a load
\* that was started before it, whether its bridge call later resolves or rejects.
C1_NoResultAfterAbort ==
    \A i, j \in DOMAIN trace :
        (i < j /\ trace[i].op = "load" /\ trace[j].op = "abort") =>
            \A k \in Callbacks({"onSuccess", "onError"}) :
                k > j => (trace[k].call # trace[i].load /\ trace[k].load # trace[i].load)

\* C1 witness: a load was started, abort() returned while its bridge call was in
\* flight, and the call has settled since (the loader was never destroyed).
C1_Witness ==
    /\ ~destroyed
    /\ \E i, j \in DOMAIN trace :
          /\ i < j /\ trace[i].op = "load" /\ trace[j].op = "abort"
          /\ \A c \in calls : c.load # trace[i].load
          /\ \A k \in Callbacks({"onSuccess", "onError"}) : trace[k].call # trace[i].load

\* C4: after destroy() no callback of any kind (onSuccess, onError, onAbort) is
\* invoked by the loader.
C4_NoCallbackAfterDestroy ==
    \A i \in DOMAIN trace :
        trace[i].op = "destroy" =>
            \A k \in Callbacks({"onSuccess", "onError", "onAbort"}) : k < i

\* C2: every event in the message history carries the currently selected channel, so
\* after a switch no event tagged with the previous channel is in it.
C2_HistoryOfSelectedChannel ==
    \A i \in DOMAIN messages : messages[i].channel = channel /\ channel # Null

\* C2 witness: the selection went from one channel to another, an event of the new
\* channel is in the history, and an event tagged with the old one has just been dropped.
C2_Witness ==
    /\ Len(connects) >= 2
    /\ connects[1].cause = "select" /\ connects[2].cause = "select"
    /\ connects[2].channel = channel
    /\ lastEvent.outcome = "wrong channel"
    /\ lastEvent.msg.channel = connects[1].channel
    /\ messages # <<>>

\* C3: a reconnect scheduled for a channel that is no longer selected when the delay
\* expires issues no connect_to_chat command.
C3_StaleReconnectIsNoOp ==
    \A i \in DOMAIN connects :
        connects[i].cause = "reconnect" => connects[i].channel = connects[i].selected

\* C5: while channel X stays selected, every chat-disconnected notification for X is
\* eventually followed by a connect_to_chat command for X, whatever the number of
\* notifications before it.
C5_EveryDisconnectReconnects ==
    \A n \in 1..MaxRetries :
        (Len(notified) >= n /\ notified[n].payload = notified[n].selected)
            ~> /\ Len(notified) >= n
               /\ \/ \E i \in DOMAIN connects :
                        /\ connects[i].cause = "reconnect"
                        /\ connects[i].n = n
                        /\ connects[i].channel = notified[n].payload
                  \/ channel # notified[n].payload

\* C5 witness: a second notification for the selected channel has been answered by a
\* connect command for it, with the selection unchanged.
C5_Witness ==
    /\ Len(notified) >= 2
    /\ notified[2].payload = channel /\ notified[1].payload = channel
    /\ selCount = 1
    /\ \E i \in DOMAIN connects :
          connects[i].cause = "reconnect" /\ connects[i].n = 2 /\ connects[i].channel = channel

\* C6: the message history holds at most 200 events and is the most recent
\* min(n, 200) of the n events accepted in the current session.
C6_HistoryIsMostRecentAccepted ==
    /\ Len(messages) <= HistoryCap
    /\ Len(messages) = (IF Len(accepted) < HistoryCap THEN Len(accepted) ELSE HistoryCap)
    /\ \A i \in DOMAIN messages :
          messages[i] = accepted[Len(accepted) - Len(messages) + i]

\* C6 witness: more than 200 events were accepted in the session.
C6_Witness == Len(accepted) > HistoryCap /\ Len(messages) = HistoryCap

SameContent(a, b) == a.user = b.user /\ a.message = b.message

\* C7 as stated: of two events with the same user and text that arrive within the
\* suppression window, never both are retained in the history.
C7_OneOfAnyTwoRetained ==
    \A i, j \in DOMAIN messages :
        (i < j /\ SameContent(messages[i], messages[j])) =>
            messages[j].timestamp - messages[i].timestamp >= SuppressWindow

\* C7 amended: an event with the same user and text as the most recent history entry,
\* arriving less than 100 ms after it, is not appended (exactly one of the two, the
\* first, is retained); and an event is suppressed only when its twin is the last entry.
C7_OneOfConsecutiveTwoRetained ==
    /\ \A i \in DOMAIN messages :
          (i > 1 /\ SameContent(messages[i - 1], messages[i])) =>
              messages[i].timestamp - messages[i - 1].timestamp >= SuppressWindow
    /\ lastEvent.outcome = "duplicate" =>
          /\ messages # <<>>
          /\ SameContent(Last(messages), lastEvent.msg)
          /\ Last(messages).channel = lastEvent.msg.channel
          /\ lastEvent.at - Last(messages).timestamp < SuppressWindow

\* C7 witness: an event has just been suppressed as the duplicate of the last entry,
\* some time (but less than 100 ms) after it.
C7_Witness ==
    /\ policy = "content"
    /\ lastEvent.outcome = "duplicate"
    /\ messages # <<>>
    /\ lastEvent.at > Last(messages).timestamp

Tables == <<twitchGlobalEmotes, globalEmotes, twitchChannelEmotes, channelEmotes>>

\* C8: the merged lookup maps each key to the value in the highest-precedence table
\* that defines it (platform-global < third-party-global < platform-channel <
\* third-party-channel), and its keys are the union of the four tables' keys.
C8_MergedLookupPrecedence ==
    /\ DOMAIN allEmotes = UNION {DOMAIN Tables[t] : t \in 1..4}
    /\ \A k \in DOMAIN allEmotes :
          LET highest == CHOOSE t \in 1..4 :
                  /\ k \in DOMAIN Tables[t]
                  /\ \A u \in 1..4 : k \in DOMAIN Tables[u] => u <= t
          IN allEmotes[k] = Tables[highest][k]

\* C8 witness: one key is defined in a global and in a channel table with different
\* values, and another only in a global table.
C8_Witness ==
    /\ "Kappa" \in DOMAIN globalEmotes \cap DOMAIN channelEmotes
    /\ globalEmotes["Kappa"] # channelEmotes["Kappa"]
    /\ "Kappa" \in DOMAIN twitchGlobalEmotes
    /\ "LUL" \in DOMAIN twitchGlobalEmotes
    /\ "LUL" \notin DOMAIN channelEmotes \cup DOMAIN twitchChannelEmotes

\* C9: while the selection is null the message history and the dedup window are
\* empty, and no connect_to_chat command is issued.
C9_NullSelectionIsQuiet ==
    [][channel' = Null =>
          (messages' = <<>> /\ seenIds' = <<>> /\ connects' = connects)]_vars

\* C10: selecting another non-null channel empties the history and the dedup window
\* and issues exactly one connect_to_chat command, for that channel; and a command
\* issued while the selection stays the same is for the selected channel.
C10_OnlySelectedSessionConnects ==
    [][/\ (channel' # channel /\ channel' # Null) =>
              /\ messages' = <<>> /\ seenIds' = <<>>
              /\ Len(connects') = Len(connects) + 1
              /\ Last(connects').channel = channel'
       /\ (channel' = channel /\ connects' # connects) =>
              Last(connects').channel = channel]_vars

\* ---- C11 .. C20 ----

\* The load whose bridge call settled as s was aborted: abort() was called between its
\* load() and the settlement.
AbortedLoad(s) ==
    \E i, j \in DOMAIN trace :
        /\ trace[i].op = "load" /\ trace[i].load = s.load
        /\ trace[j].op = "abort" /\ i < j /\ j <= s.at

InvokedFor(op, s) == {i \in DOMAIN trace : trace[i].op = op /\ trace[i].call = s.load}

\* C11: for a load that is neither aborted nor destroyed and whose bridge call
\* succeeds, onSuccess is invoked exactly once, on that load's callbacks, with the
\* load's url and the fetched text (playlist) or the buffer of the fetched bytes
\* (segment).
C11_SuccessExactlyOnce ==
    \A k \in DOMAIN settled :
        LET s == settled[k] IN
        (s.outcome = "resolved" /\ ~s.destroyed /\ ~AbortedLoad(s)) =>
            /\ Cardinality(InvokedFor("onSuccess", s)) = 1
            /\ \A i \in InvokedFor("onSuccess", s) :
                  /\ trace[i].load = s.load
                  /\ trace[i].url = s.url
                  /\ trace[i].data = IF s.cmd = "fetch_m3u8" THEN s.value
                                     ELSE ToUint8Array(s.value)

\* C12: when the bridge call of a load that is neither aborted nor destroyed fails,
\* onError is invoked exactly once with code 0 and the stringified cause, onSuccess
\* is not invoked, and no further bridge call is issued for that load.
C12_ErrorExactlyOnce ==
    \A k \in DOMAIN settled :
        LET s == settled[k] IN
        (s.outcome = "rejected" /\ ~s.destroyed /\ ~AbortedLoad(s)) =>
            /\ Cardinality(InvokedFor("onError", s)) = 1
            /\ \A i \in InvokedFor("onError", s) :
                  /\ trace[i].load = s.load
                  /\ trace[i].data = [code |-> 0, text |-> s.value]
            /\ InvokedFor("onSuccess", s) = {}
            /\ \A c \in calls : c.load # s.load

\* C13: between a chat-disconnected notification and the connect_to_chat command it
\* triggers the full reconnect delay has elapsed, for the first notification and for
\* every later one.
C13_FullDelayBeforeReconnect ==
    \A i \in DOMAIN connects :
        connects[i].cause = "reconnect" =>
            connects[i].at - connects[i].notifiedAt >= ReconnectDelay

\* C13 witness: a second notification, arriving while the first reconnect was still
\* pending, has been answered by its own reconnect.
C13_Witness ==
    \E i, j \in DOMAIN connects :
        /\ connects[i].cause = "reconnect" /\ connects[i].n = 1
        /\ connects[j].cause = "reconnect" /\ connects[j].n = 2
        /\ connects[j].notifiedAt > connects[i].notifiedAt
        /\ connects[j].notifiedAt < connects[i].at

InvokesOf(i) == {j \in DOMAIN invokeLog : invokeLog[j].n = i}
ErrorsOf(i) == {j \in DOMAIN errorLog : errorLog[j].n = i}

\* C14: a send_chat_message command is issued only when the user is logged in and a
\* chat session is connected, which takes at least a selected channel.
C14_SendOnlyWhenConnected ==
    \A i \in DOMAIN sendLog :
        InvokesOf(i) # {} => (sendLog[i].loggedIn /\ sendLog[i].selected # Null)

\* C15: sendMessage with blank text or while not logged in issues no command and logs
\* no error; otherwise it issues exactly one send_chat_message command, with the
\* trimmed text, and a failure of that command is logged once and never retried; and
\* no step of sendMessage changes the history, the dedup window or the selection.
C15_SendOnceOrNoOp ==
    /\ [](\A i \in DOMAIN sendLog :
            /\ IF Trim(sendLog[i].text) = <<>> \/ ~sendLog[i].loggedIn
               THEN InvokesOf(i) = {} /\ ErrorsOf(i) = {}
               ELSE /\ Cardinality(InvokesOf(i)) = 1
                    /\ \A j \in InvokesOf(i) : invokeLog[j].message = Trim(sendLog[i].text)
                    /\ Cardinality(ErrorsOf(i)) <= 1
            /\ ErrorsOf(i) # {} => i \notin pendingSends)
    /\ [][(sendLog' # sendLog \/ pendingSends' # pendingSends) =>
              UNCHANGED <<messages, seenIds, channel, currentChannelRef>>]_vars

\* C15 witness: a text with surrounding whitespace was sent while logged in, with
\* events in the history, and its command failed; a blank text was a no-op.
C15_Witness ==
    /\ Len(sendLog) = 2
    /\ sendLog[1].text = <<" ", "a", " ", "b", "\n">> /\ sendLog[1].loggedIn
    /\ ErrorsOf(1) # {}
    /\ sendLog[2].text = <<" ", "\n">> /\ sendLog[2].loggedIn
    /\ messages # <<>>

\* A stored message is the event e with a timestamp added.
StoredFrom(m, e) ==
    /\ m.channel = e.channel /\ m.user = e.user
    /\ m.message = e.message /\ m.id = e.id

\* The events of a log that are tagged with the selected channel.
RECURSIVE ForSelectedChannel(_)
ForSelectedChannel(events) ==
    IF events = <<>> THEN <<>>
    ELSE IF Head(events).channel = channel
         THEN <<Head(events)>> \o ForSelectedChannel(Tail(events))
         ELSE ForSelectedChannel(Tail(events))

\* hist can be obtained from the events by dropping some of them, keeping the order.
RECURSIVE IsSubsequence(_, _)
IsSubsequence(hist, events) ==
    IF hist = <<>> THEN TRUE
    ELSE IF events = <<>> THEN FALSE
    ELSE IF StoredFrom(Head(hist), Head(events))
            /\ IsSubsequence(Tail(hist), Tail(events))
         THEN TRUE
         ELSE IsSubsequence(hist, Tail(events))

\* C16: within a session the message history is an order-preserving subsequence of
\* the events received for the selected channel.
C16_HistoryInReceiveOrder ==
    /\ Len(messages) <= Len(received)
    /\ IsSubsequence(messages, ForSelectedChannel(received))

\* C16 witness: three events were received, the middle one was dropped, and the two
\* retained ones differ.
C16_Witness ==
    /\ Len(received) = 3 /\ Len(messages) = 2
    /\ lastEvent.outcome = "appended"
    /\ StoredFrom(messages[1], received[1]) /\ StoredFrom(messages[2], received[3])
    /\ ~StoredFrom(messages[1], received[3])

\* C17: under the identity-based policy an event for the selected channel whose id is
\* in the seen-id window is not appended to the history; one whose id is not in the
\* window is appended, and its id is added to the window.
C17_SeenIdDecidesAppend ==
    [][(policy = "id" /\ Len(received') = Len(received) + 1) =>
          LET e == Last(received') IN
          (e.channel = channel /\ e.id # NoId) =>
              IF e.id \in Range(seenIds)
              THEN messages' = messages /\ seenIds' = seenIds
              ELSE /\ Len(messages') = Len(messages) + 1
                   /\ StoredFrom(Last(messages'), e)
                   /\ SubSeq(messages', 1, Len(messages)) = messages
                   /\ e.id \in Range(seenIds')]_vars

\* C17 witness: two ids are in the window and an event carrying the older one has
\* just been dropped.
C17_Witness ==
    /\ policy = "id"
    /\ Len(seenIds) = 2 /\ Len(messages) = 2 /\ Len(received) = 3
    /\ lastEvent.outcome = "duplicate"
    /\ lastEvent.msg.id = seenIds[1]

\* C18: the seen-id window never holds more than 500 ids after an event has been
\* processed; an id that would make it exceed 500 evicts exactly the oldest id; and
\* the window is emptied on every channel change.
C18_SeenWindowFifo ==
    /\ [](Len(seenIds) <= SeenCap)
    /\ [][/\ (channel' = channel /\ Len(accepted') = Len(accepted) + 1) =>
                 /\ seenIds' = Append(IF Len(seenIds) = SeenCap THEN Tail(seenIds)
                                                                ELSE seenIds,
                                      Last(accepted').id)
                 /\ Last(accepted').id \notin Range(seenIds)
          /\ (channel' = channel /\ accepted' = accepted) => seenIds' = seenIds
          /\ channel' # channel => seenIds' = <<>>]_vars

\* C18 witness: the window is full, its oldest id is no longer the first id of the
\* session, and that first id has been accepted again.
C18_Witness ==
    /\ Len(seenIds) = SeenCap
    /\ Head(seenIds) # 3
    /\ Last(seenIds) = 3

\* The badges of a list prop (none when it is null) that carry the pair ref.
Matching(list, ref) ==
    {k \in DOMAIN list.items :
        list.items[k].setID = ref[1] /\ list.items[k].version = ref[2]}

\* The positions of msg.badges that resolve in either set.
ResolvedRefs ==
    {i \in DOMAIN viewProps.badges.items :
        Matching(viewProps.channelBadges, viewProps.badges.items[i])
            \cup Matching(viewProps.globalBadges, viewProps.badges.items[i]) # {}}

\* C19: the resolved list holds, in the order of the message's badge references, one
\* image per reference that has a badge in either set: the channel badge's image when
\* the channel set has the pair, otherwise the global badge's; other pairs are omitted.
C19_BadgeResolution ==
    /\ Len(badgeUrls) = Cardinality(ResolvedRefs)
    /\ \A i \in ResolvedRefs :
          LET ref == viewProps.badges.items[i]
              pos == Cardinality({j \in ResolvedRefs : j <= i})
              inChannel == Matching(viewProps.channelBadges, ref)
              inGlobal == Matching(viewProps.globalBadges, ref)
          IN badgeUrls[pos] =
                IF inChannel # {}
                THEN viewProps.channelBadges.items[
                         CHOOSE k \in inChannel : \A l \in inChannel : k <= l].imageURL
                ELSE viewProps.globalBadges.items[
                         CHOOSE k \in inGlobal : \A l \in inGlobal : k <= l].imageURL

\* C19 witness: three references, the first in no set, the second in both sets, the
\* third only in the global set.
C19_Witness ==
    /\ viewProps.badges = BadgeList(<< <<"vip", "1">>, <<"sub", "1">>, <<"mod", "1">> >>)
    /\ Matching(viewProps.globalBadges, <<"sub", "1">>) # {}
    /\ badgeUrls = << "c-sub1", "g-mod1" >>

\* C20: when one of the loads of a selection, or of the startup, fails, the failing
\* source contributes an empty table and the results of the other loads are applied:
\* after a load settles, every source that succeeded shows its result and every
\* source that failed shows nothing.
C20_FailuresAreIsolated ==
    /\ lastSettled.kind = "channel" =>
          /\ channelEmotes = IF lastSettled.emotes.ok
                             THEN EmoteMap(lastSettled.emotes.value) ELSE EmptyMap
          /\ channelBadges = IF lastSettled.badges.ok
                             THEN lastSettled.badges.value ELSE <<>>
          /\ twitchChannelEmotes = IF lastSettled.twitch.ok /\ lastSettled.twitch.hasData
                                   THEN TwitchEmoteMap(lastSettled.twitch.value)
                                   ELSE EmptyMap
    /\ lastSettled.kind = "global" =>
          globalEmotes = IF lastSettled.emotes.ok
                         THEN EmoteMap(lastSettled.emotes.value) ELSE EmptyMap
    /\ lastSettled.kind = "twitchGlobal" =>
          twitchGlobalEmotes = IF lastSettled.twitch.ok /\ lastSettled.twitch.hasData
                               THEN TwitchEmoteMap(lastSettled.twitch.value)
                               ELSE EmptyMap
    /\ lastSettled.kind = "globalBadges" =>
          globalBadges = IF lastSettled.badges.ok THEN lastSettled.badges.value ELSE <<>>

\* ---- C21 .. C30 ----

\* The bridge calls issued for load n so far: the pending ones and the settled ones.
IssuedFor(n) ==
    {[cmd |-> c.cmd, url |-> c.url] : c \in {c \in calls : c.load = n}}
    \cup {[cmd |-> settled[k].cmd, url |-> settled[k].url] :
             k \in {k \in DOMAIN settled : settled[k].load = n}}

PendingOrSettled(n) ==
    Cardinality({c \in calls : c.load = n})
    + Cardinality({k \in DOMAIN settled : settled[k].load = n})

\* C21 as stated: every load() issues exactly one bridge call, fetch_m3u8 exactly when
\* the request url ends with .m3u8 and fetch_bytes for every other url.
C21_RoutedByUrlSuffix ==
    \A i \in DOMAIN trace :
        trace[i].op = "load" =>
            /\ PendingOrSettled(trace[i].load) = 1
            /\ IssuedFor(trace[i].load) =
                  {[cmd |-> IF Last(trace[i].url) = ".m3u8" THEN "fetch_m3u8"
                                                            ELSE "fetch_bytes",
                    url |-> trace[i].url]}

\* C21 amended: every load() issues exactly one bridge call, fetch_m3u8 exactly when
\* the request url contains .m3u8 anywhere (also before a query string) and
\* fetch_bytes for every other url, whatever the state of the loader.
C21_RoutedByUrlSubstring ==
    \A i \in DOMAIN trace :
        trace[i].op = "load" =>
            /\ PendingOrSettled(trace[i].load) = 1
            /\ IssuedFor(trace[i].load) =
                  {[cmd |-> IF \E j \in 1..Len(trace[i].url) : trace[i].url[j] = ".m3u8"
                            THEN "fetch_m3u8" ELSE "fetch_bytes",
                    url |-> trace[i].url]}

\* C21 witness: on an aborted loader, a url with .m3u8 before its query string was
\* routed to fetch_m3u8 and a segment url to fetch_bytes.
C21_Witness ==
    /\ stats.aborted
    /\ \E i, j \in DOMAIN trace :
          /\ trace[i].op = "load" /\ trace[i].url = <<"seg2", ".m3u8", "?sig">>
          /\ IssuedFor(trace[i].load) = {[cmd |-> "fetch_m3u8", url |-> trace[i].url]}
          /\ trace[j].op = "load" /\ trace[j].url = <<"seg1", ".ts">>
          /\ IssuedFor(trace[j].load) = {[cmd |-> "fetch_bytes", url |-> trace[j].url]}

\* C22: when the success callback fires, stats.loaded and stats.total are the length
\* of the delivered payload, loading.end is the time of this completion and is not
\* before loading.start, and loading.first is set: to this time when it was unset, and
\* left as it was otherwise.
C22_StatsOnSuccess ==
    [][\A k \in (Len(trace) + 1)..Len(trace') :
          trace'[k].op = "onSuccess" =>
              /\ stats'.loaded = Len(trace'[k].data)
              /\ stats'.total = Len(trace'[k].data)
              /\ stats'.loading.end = perfNow
              /\ stats'.loading.end >= stats'.loading.start
              /\ stats'.loading.first # 0
              /\ stats'.loading.first =
                    IF stats.loading.first = 0 THEN perfNow ELSE stats.loading.first]_vars

\* C22 witness: two loads have succeeded on the instance, the second later than the
\* first, so that loading.first was already set when the second was stamped.
C22_Witness ==
    /\ Cardinality(Callbacks({"onSuccess"})) = 2
    /\ stats.loading.first < stats.loading.end
    /\ stats.loading.start <= stats.loading.end
    /\ stats.loaded = Len(trace[Len(trace)].data)
    /\ trace[Len(trace)].op = "onSuccess"

\* C23: each load has its own stats record: while another load is in flight, the
\* settlement of one load's bridge call, or an abort(), leaves the stats observed for
\* the other load (the loader's stats) as they were.
C23_OwnStatsPerLoad ==
    [][( (\E c \in calls : c \notin calls' /\ \E d \in calls' : d.load # c.load)
         \/ ( /\ Cardinality(calls) >= 2
              /\ Len(trace') > Len(trace)
              /\ trace'[Len(trace) + 1].op = "abort" ) )
       => stats' = stats]_vars

\* C24: inbound events are compared with the channel name the join acknowledgement
\* confirmed, not with the requested string: an event tagged with the confirmed name
\* of the selected channel is never dropped as belonging to another channel.
C24_FilterByConfirmedName ==
    (channel # Null /\ lastEvent.outcome # "none"
        /\ lastEvent.msg.channel = Confirmed(channel))
    => lastEvent.outcome # "wrong channel"

\* The callbacks abort() invoked in a step that called it.
InvokedByAbort == SubSeq(trace', Len(trace) + 2, Len(trace'))

AbortCalled == Len(trace') > Len(trace) /\ trace'[Len(trace) + 1].op = "abort"

\* C25: abort() sets stats.aborted and, when a load was started and the loader is not
\* destroyed (callbacks are registered), invokes the abort callback of the registered
\* callbacks once; otherwise it sets the flag and invokes nothing.
C25_AbortFlagsAndNotifies ==
    [][AbortCalled =>
          /\ stats'.aborted
          /\ IF loadCount > 0 /\ ~destroyed /\ callbacks.hasOnAbort
             THEN InvokedByAbort = << Event("onAbort", loadCount, 0, context.url, <<>>) >>
             ELSE InvokedByAbort = <<>>]_vars

\* What each startup load contributes once it has settled: its result when it
\* succeeded, nothing when it failed or has not settled yet.
ExpectedGlobalEmotes ==
    IF Pending("global") = {} /\ startup.global.ok
    THEN EmoteMap(startup.global.value) ELSE EmptyMap

ExpectedTwitchGlobalEmotes ==
    IF Pending("twitchGlobal") = {} /\ startup.twitch.ok /\ startup.twitch.hasData
    THEN TwitchEmoteMap(startup.twitch.value) ELSE EmptyMap

ExpectedGlobalBadges ==
    IF Pending("globalBadges") = {} /\ startup.badges.ok
    THEN startup.badges.value ELSE <<>>

\* C26: for fixed results of the three startup loads, each global table and the
\* global badge set depend only on whether their own load has settled and on its
\* result, and the merged lookup only on the two tables, in every completion order.
C26_StartupOrderIndependent ==
    /\ globalEmotes = ExpectedGlobalEmotes
    /\ twitchGlobalEmotes = ExpectedTwitchGlobalEmotes
    /\ globalBadges = ExpectedGlobalBadges
    /\ allEmotes =
          [k \in DOMAIN ExpectedTwitchGlobalEmotes \cup DOMAIN ExpectedGlobalEmotes |->
              IF k \in DOMAIN ExpectedGlobalEmotes THEN ExpectedGlobalEmotes[k]
              ELSE ExpectedTwitchGlobalEmotes[k]]

\* C26 witness: all three loads have settled, the third-party load failed, and the
\* platform emotes and the badges of the other two loads are in place.
C26_Witness ==
    /\ emoteLoads = {}
    /\ ~startup.global.ok
    /\ globalEmotes = EmptyMap
    /\ "Kappa" \in DOMAIN twitchGlobalEmotes
    /\ allEmotes = twitchGlobalEmotes
    /\ globalBadges # <<>>

\* C27: whenever no channel-scoped load is in flight, the channel emote tables and the
\* channel badge set are those loaded for the selected channel, or they are empty.
C27_ChannelTablesOfSelection ==
    (Pending("channel") = {} /\ Pending("userInfo") = {}) =>
        \/ appliedFor = selectedId
        \/ /\ channelEmotes = EmptyMap
           /\ twitchChannelEmotes = EmptyMap
           /\ channelBadges = <<>>

\* C28: for a single load at most one of onSuccess and onError is invoked, and onError
\* is never invoked for a load whose bridge call succeeded, also when the onSuccess
\* callback throws.
C28_AtMostOneResultCallback ==
    \A k \in DOMAIN settled :
        LET s == settled[k] IN
        /\ InvokedFor("onSuccess", s) = {} \/ InvokedFor("onError", s) = {}
        /\ s.outcome = "resolved" => InvokedFor("onError", s) = {}

\* C29: every load on a loader that is not destroyed gets its result callback when
\* its bridge call settles, unless abort() was called during that load: onSuccess once
\* when the call resolved, onError once when it rejected. An abort() made before the
\* load was started does not count.
C29_LoadAfterAbortCompletes ==
    \A k \in DOMAIN settled :
        LET s == settled[k] IN
        (~s.destroyed /\ ~AbortedLoad(s)) =>
            Cardinality(InvokedFor(IF s.outcome = "resolved" THEN "onSuccess"
                                                              ELSE "onError", s)) = 1

\* The load() calls made before position k of the trace.
LoadsBefore(k) == {j \in 1..(k - 1) : trace[j].op = "load"}

\* C30 as stated: the callbacks invoked with the result of a bridge call are the ones
\* passed to the load() that issued the call, and the url they receive is the url the
\* call was issued for, also when another load() was started in between.
C30_ResultGoesToItsLoad ==
    \A k \in Callbacks({"onSuccess", "onError"}) :
        /\ trace[k].load = trace[k].call
        /\ \E i \in LoadsBefore(k) :
              trace[i].load = trace[k].call /\ trace[i].url = trace[k].url

\* C30 amended: the result of a bridge call goes to the callbacks and with the url of
\* the latest load() made on the instance before the call settled; so it goes to the
\* load that issued the call, with that load's url, whenever no other load() was
\* started on the instance in between.
C30_ResultGoesToLatestLoad ==
    \A k \in Callbacks({"onSuccess", "onError"}) :
        LET latest == CHOOSE i \in LoadsBefore(k) : \A j \in LoadsBefore(k) : j <= i IN
        /\ LoadsBefore(k) # {}
        /\ trace[k].load = trace[latest].load
        /\ trace[k].url = trace[latest].url
        /\ trace[latest].load = trace[k].call =>
              (trace[k].load = trace[k].call /\ trace[k].url = trace[latest].url)

\* C30 witness: two loads with different urls were made one after the other, and each
\* got its result on its own callbacks with its own url.
C30_Witness ==
    \E k1, k2 \in Callbacks({"onSuccess", "onError"}) :
        /\ trace[k1].call = 1 /\ trace[k1].load = 1
        /\ trace[k2].call = 2 /\ trace[k2].load = 2
        /\ trace[k1].url # trace[k2].url
        /\ \E i \in LoadsBefore(k2) : trace[i].load = 2 /\ i > k1

\* ---- C31 .. C37 ----

\* The timestamps of the stats record other than loading.start, with loaded and total.
Measured(s) ==
    <<s.loaded, s.total, s.loading.first, s.loading.end, s.parsing, s.buffering>>

\* C37: on every successful completion parsing.start, parsing.end, buffering.start,
\* buffering.first and buffering.end all equal stats.loading.end; on a failed or
\* discarded (aborted / destroyed) completion loaded, total and every timestamp other
\* than loading.start are left unchanged.
C37_PassThroughEqualsLoadEnd ==
    [][(\E c \in calls : c \notin calls') =>
          IF \E k \in (Len(trace) + 1)..Len(trace') : trace'[k].op = "onSuccess"
          THEN /\ stats'.loading.end = perfNow
               /\ stats'.parsing.start = stats'.loading.end
               /\ stats'.parsing.end = stats'.loading.end
               /\ stats'.buffering.start = stats'.loading.end
               /\ stats'.buffering.first = stats'.loading.end
               /\ stats'.buffering.end = stats'.loading.end
          ELSE Measured(stats') = Measured(stats)]_vars

\* C37 witness: a load started at one time has completed successfully at a later
\* time, and the parsing and buffering timestamps carry that later time.
C37_Witness ==
    /\ trace # <<>> /\ trace[Len(trace)].op = "onSuccess"
    /\ calls = {}
    /\ stats.loading.start < stats.loading.end
    /\ stats.loading.end = perfNow
    /\ stats.parsing = [start |-> perfNow, end |-> perfNow]
    /\ stats.buffering = [start |-> perfNow, first |-> perfNow, end |-> perfNow]

\* The notifications that named a channel other than the one selected on arrival.
ForAnotherChannel == {n \in DOMAIN notified : notified[n].payload # notified[n].selected}

\* C34: a chat-disconnected notification for a channel other than the one selected
\* when it arrives issues no connect_to_chat command, after any delay (no timer is
\* pending for it and no connect command is ever attributed to it), and leaves the
\* message history, the dedup window and the selection unchanged.
C34_OtherChannelDisconnectIsNoOp ==
    /\ [](\A n \in ForAnotherChannel :
             /\ \A t \in timers : t.n # n
             /\ \A i \in DOMAIN connects :
                   ~(connects[i].cause = "reconnect" /\ connects[i].n = n))
    /\ [][(Len(notified') > Len(notified) /\ Len(notified') \in ForAnotherChannel')
            => UNCHANGED <<messages, seenIds, lastEvent, channel, currentChannelRef,
                           connects, timers>>]_vars

\* C34 witness: with a channel selected and a message in its history, a notification
\* for another channel arrived, and the reconnect delay has since passed twice over.
C34_Witness ==
    /\ ForAnotherChannel = {1}
    /\ notified[1].selected = channel /\ channel # Null
    /\ messages # <<>> /\ seenIds # <<>>
    /\ now >= 2 * ReconnectDelay
    /\ Len(connects) = 1

\* C35: under the identity-based policy an event for the selected channel that carries
\* no identifier is never suppressed: it is appended to the history and leaves the
\* seen-id window unchanged, however many identical events precede it.
C35_NoIdNeverSuppressed ==
    [][(policy = "id" /\ Len(received') = Len(received) + 1) =>
          LET e == Last(received') IN
          (e.channel = channel /\ e.id = NoId) =>
              /\ Len(messages') = Len(messages) + 1
              /\ StoredFrom(Last(messages'), e)
              /\ SubSeq(messages', 1, Len(messages)) = messages
              /\ seenIds' = seenIds]_vars

\* C35 witness: three identical events without an id were received one after the
\* other, and the history holds all three.
C35_Witness ==
    /\ policy = "id"
    /\ Len(received) = 3 /\ Len(messages) = 3
    /\ \A i \in 1..3 : received[i] = received[1] /\ received[i].id = NoId
    /\ \A i \in 1..3 : StoredFrom(messages[i], received[i])
    /\ seenIds = <<>>

\* C36: with the in-flight guard of loadTopStreams at most one get_top_streams request
\* is in flight at any time; a call made while one is in flight issues no request and
\* changes no state; the guard is held exactly while a request is in flight, so it is
\* released on every outcome; and whenever isLoading is true a request is in flight.
C36_InFlightGuard ==
    /\ [](/\ Cardinality(topRequests) <= 1
          /\ isLoadingRef <=> (topRequests # {})
          /\ isLoading => (topRequests # {}))
    /\ [][(topCalls' = topCalls + 1 /\ topRequests # {})
            => UNCHANGED <<topStreams, isLoading, isLoadingRef, topRequests>>]_vars

\* C36 witness: after a load that settled and released the guard, a second load is in
\* flight and a third call, made meanwhile, has returned without a request of its own.
C36_Witness ==
    /\ topCalls = 3
    /\ topRequests = {[n |-> 2, isRefresh |-> FALSE]}
    /\ topStreams = <<>>
    /\ isLoading /\ isLoadingRef

\* C31: a reconnect attempt whose connect_to_chat command is rejected is only logged.
\* The step that handles the rejection leaves the chat state as it was (it sets no
\* timer and issues no command), and every connect command issued after it is due
\* to a change of the selection or to another chat-disconnected notification.
C31_FailedReconnectOnlyLogged ==
    /\ [](\A k \in DOMAIN reconnectLog :
             reconnectLog[k].outcome = "rejected" =>
                \A i \in DOMAIN connects :
                    i > reconnectLog[k].connects =>
                       \/ connects[i].cause = "select"
                       \/ connects[i].n # reconnectLog[k].n)
    /\ [][(/\ Len(reconnectLog') = Len(reconnectLog) + 1
            /\ Last(reconnectLog').outcome = "rejected")
            => UNCHANGED chatVars]_vars

\* C31 witness: the reconnect for the only notification was rejected, the selection
\* has not changed since, a further reconnect delay has passed, and no connect command
\* was issued after the failure.
C31_Witness ==
    /\ Len(reconnectLog) = 1 /\ Len(notified) = 1
    /\ reconnectLog[1].outcome = "rejected"
    /\ reconnectLog[1].selected = channel /\ channel # Null
    /\ notified[1].payload = channel
    /\ timers = {} /\ attempts = {}
    /\ Len(connects) = reconnectLog[1].connects
    /\ now >= connects[Len(connects)].at + ReconnectDelay

\* C32: at most one Hls instance is alive at a time and, once every get_stream_url
\* request has settled, the live instance plays the URL resolved for the selected
\* channel; a request started for a previous channel that resolves after a switch, or
\* after the player is torn down, leaves no instance for the old channel.
C32_OneInstanceForSelection ==
    /\ Cardinality(hlsAlive) <= 1
    /\ streamRequests = {} =>
          \A i \in hlsAlive :
              playerChannel # NoChannel /\ i.url = StreamUrl(playerChannel)

\* C33: search results always correspond to the current query: while the query is
\* blank the result list is empty and hidden, also when a search_channels request
\* issued for an earlier query resolves after the query was cleared or changed; and
\* search_channels is invoked only for a query value that stayed unchanged for the
\* debounce period, with at most one debounce timer pending.
C33_ResultsMatchQuery ==
    /\ Trim(query) = <<>> => (results = <<>> /\ ~showResults)
    /\ results # <<>> => resultsFor = query
    /\ \A k \in DOMAIN searchLog :
          /\ searchLog[k].at - searchLog[k].setAt >= DebounceDelay
          /\ searchLog[k].current = searchLog[k].query
    /\ Cardinality(searchTimers) <= 1

====
